---- MODULE Spec2Model ----
(***************************************************************************)
(* A model of the web-automation core: ActionExecutor (execute_action,     *)
(* execute_workflow), BrowserManager (launch, create_context, new_page,    *)
(* close, navigate, the request handler), AntiCrawlerManager               *)
(* (should_delay, get_delay_time, update_last_request_time, the user-agent *)
(* and proxy pools with their files under config/), SelectorEngine         *)
(* (parse_selector, find_element, find_elements and the handlers) and      *)
(* WorkflowEngine (load_workflow, execute_workflow).  Each specification   *)
(* drives one of them: Spec the executor, SpecGate the delay gates,        *)
(* SpecNavigate navigate alone, SpecPool and SpecDelay the pools and the   *)
(* policy, SpecSel and SpecHandler the selectors, SpecEngine the engine,   *)
(* SpecRuns interleaved execute_workflow calls, SpecBrowser the manager.   *)
(*                                                                         *)
(* Strings the code inspects character by character (selectors) are        *)
(* sequences of one-character strings.  Python's None is 0 for object      *)
(* references, NoTime for the request timestamp and <<>> for a selector    *)
(* (the code tests `if selector_str:`, which treats None and "" alike).    *)
(* Time is counted in whole ticks.                                         *)
(***************************************************************************)
EXTENDS Integers, Sequences, FiniteSets, TLC

\* Bounds of the model.
MaxLen == 2
MaxCalls == 1
MaxTime == 3
MaxDelay == 2

VARIABLES
    \* BrowserManager: [browser, context, open, nextId] and its browser_type
    bm, browser_type,
    \* AntiCrawlerManager (browser_manager.anti_crawler) and the wall clock
    last_request_time, delay_config, now,
    \* ActionExecutor configuration
    anti_crawler_enabled, min_delay, max_delay,
    \* the call in progress
    pc, mode, workflow, idx, page, action, result, results, exc, outcome,
    log, closeCalls, calls,
    \* AntiCrawlerManager pools, the files under config/ and the last
    \* administration call: [op, arg, before, raised, ret, ...]
    user_agents, proxies, store, acm,
    \* the last SelectorEngine call: [op, selector, outcome, ...]
    sel,
    \* the last WorkflowEngine call
    eng,
    \* concurrent execute_workflow runs on one executor, and the browser
    \* objects they met: which were closed, which browser a context is of
    rn, world,
    \* the last call a sequential caller made on a BrowserManager of its own
    bx,
    \* the time the caller's pending asyncio.sleep ends, and the calls of
    \* the request handler in progress
    wake, req

bmVars == <<bm>>
cfgVars == <<browser_type, anti_crawler_enabled, min_delay, max_delay>>
gateVars == <<last_request_time, delay_config>>
callVars == <<pc, mode, workflow, idx, page, action, result, results, exc,
              outcome, log, closeCalls, calls>>
poolVars == <<user_agents, proxies, store, acm>>
selVars == <<sel>>
extVars0 == <<eng, rn, world, bx>>
extVars == <<extVars0, wake, req>>
vars == <<bmVars, cfgVars, gateVars, now, callVars, poolVars, selVars,
          extVars>>

NoTime == -1

----------------------------------------------------------------------------
\* Character strings.

T_css == <<"c", "s", "s">>
T_xpath == <<"x", "p", "a", "t", "h">>
T_id == <<"i", "d">>
T_name == <<"n", "a", "m", "e">>
T_class == <<"c", "l", "a", "s", "s">>

\* str.lower() on the letters the model's selectors use.
LowerChar(c) ==
    CASE c = "I" -> "i"
      [] c = "D" -> "d"
      [] c = "X" -> "x"
      [] OTHER -> c

Lower(s) == [i \in 1..Len(s) |-> LowerChar(s[i])]

\* Index of the first occurrence of c in s, 0 when there is none.
IndexOf(s, c) ==
    IF \E i \in 1..Len(s) : s[i] = c
    THEN CHOOSE i \in 1..Len(s) : s[i] = c /\ \A j \in 1..(i - 1) : s[j] # c
    ELSE 0

\* action_executor.SelectorEngine.parse_selector: [ok, type, value];
\* ok = FALSE stands for the ValueError of an unsupported selector type.
AE_parse_selector(selector) ==
    LET k == IndexOf(selector, ":")
        type_part == Lower(SubSeq(selector, 1, k - 1))
        value_part == SubSeq(selector, k + 1, Len(selector))
    IN  IF k = 0 THEN [ok |-> TRUE, type |-> "css", value |-> selector]
        ELSE IF type_part = T_css
             THEN [ok |-> TRUE, type |-> "css", value |-> value_part]
        ELSE IF type_part = T_xpath
             THEN [ok |-> TRUE, type |-> "xpath", value |-> value_part]
        ELSE IF type_part = T_id
             THEN [ok |-> TRUE, type |-> "id", value |-> <<"#">> \o value_part]
        ELSE IF type_part = T_name
             THEN [ok |-> TRUE, type |-> "name",
                   value |-> <<"[", "n", "a", "m", "e", "=", "\"">> \o value_part
                             \o <<"\"", "]">>]
        ELSE IF type_part = T_class
             THEN [ok |-> TRUE, type |-> "class", value |-> <<".">> \o value_part]
        ELSE [ok |-> FALSE, type |-> "", value |-> <<>>]

----------------------------------------------------------------------------
\* Action descriptors and results.

\* The verbs execute_action dispatches (its if/elif chain).
DispatchedVerbs ==
    {"goto", "click", "input", "select", "radio", "checkbox", "wait"}

\* The extraction verbs of the specification's verb table.
ExtractVerbs ==
    {"extract_text", "extract_html", "extract_attribute", "extract_url",
     "extract_multiple"}

Verbs == DispatchedVerbs \cup ExtractVerbs \cup {"unsupported_action"}

S_none == <<>>
S_id == <<"I", "d", ":", "a">>
S_bad == <<"a", ":", "h">>

Selectors == {S_none, S_id, S_bad}

\* A descriptor is a dict, or (isdict = FALSE) a value without .get, such
\* as None in the workflow list.
Descriptor(t, s) == [selector |-> s, type |-> t, isdict |-> TRUE]
NotADict == [selector |-> <<>>, type |-> "", isdict |-> FALSE]
NoAction == [selector |-> <<>>, type |-> "", isdict |-> TRUE]

AllActions == {Descriptor(t, s) : t \in Verbs, s \in Selectors} \cup {NotADict}

WorkflowActions ==
    {Descriptor("goto", S_none), Descriptor("click", S_id),
     Descriptor("input", S_bad), Descriptor("unsupported_action", S_none),
     NotADict}

SeqsUpTo(S, n) == UNION {[1..k -> S] : k \in 0..n}

Workflows == SeqsUpTo(WorkflowActions, MaxLen)

Success(msg) == [status |-> "success", message |-> msg]
Error(msg) == [status |-> "error", message |-> msg]
NoResult == [status |-> "", message |-> ""]

\* The log of a call: what was done (kind), for which action of the run or
\* with which value (i), and when (t).
EventAt(kind, i, t) == [i |-> i, t |-> t, kind |-> kind]

Event(kind, i) == EventAt(kind, i, now)

----------------------------------------------------------------------------
\* BrowserManager.  b is the manager's state: b.browser and b.context are
\* the fields self.browser and self.context (0 for None), b.open the set of
\* browsers started and not closed, b.nextId the next fresh object identity.
\* Every operation takes the outcome of its awaited browser calls as an
\* argument; the page collaborator decides it.

BrowserTypes == {"chromium", "opera"}

NewManager == [browser |-> 0, context |-> 0, open |-> {}, nextId |-> 1]

StartBrowser(b) ==
    [b EXCEPT !.browser = b.nextId, !.nextId = b.nextId + 1,
              !.open = b.open \cup {b.nextId}]

\* launch() raises for a browser_type outside chromium/firefox/webkit.
LaunchOutcomes ==
    IF browser_type \in {"chromium", "firefox", "webkit"} THEN BOOLEAN
    ELSE {FALSE}

\* launch(): starts a browser and stores it in self.browser, whatever
\* self.browser held; on failure it raises and changes nothing.
launch(b, ok) == IF ok THEN StartBrowser(b) ELSE b

\* init(): starts chromium only when self.browser is None.
init(b, ok) == IF b.browser = 0 /\ ok THEN StartBrowser(b) ELSE b

ContextOutcomes(b) ==
    {"ok", "context_failed"} \cup (IF b.browser = 0 THEN {"init_failed"} ELSE {})

\* create_context(): init() when there is no browser, then a new context
\* stored in self.context.  It raises unless o = "ok".
create_context(b, o) ==
    LET b1 == init(b, o # "init_failed")
    IN  IF o = "ok"
        THEN [b1 EXCEPT !.context = b1.nextId, !.nextId = b1.nextId + 1]
        ELSE b1

PageOutcomes(b) ==
    {"ok", "page_failed"}
        \cup (IF b.context = 0 THEN ContextOutcomes(b) \ {"ok"} ELSE {})

\* new_page(): create_context() when there is no context, then a new page
\* of self.context.  It raises unless o = "ok".
new_page(b, o) ==
    LET b1 == IF b.context = 0
              THEN create_context(b, IF o \in {"ok", "page_failed"} THEN "ok" ELSE o)
              ELSE b
    IN  IF o = "ok" THEN [b1 EXCEPT !.nextId = b1.nextId + 1] ELSE b1

\* The page new_page returns when it succeeds.
NewPageId(b, o) ==
    LET b1 == IF b.context = 0 THEN create_context(b, "ok") ELSE b
    IN  IF o = "ok" THEN b1.nextId ELSE 0

CloseOutcomes(b) ==
    {"ok"} \cup (IF b.context # 0 THEN {"context_close_failed"} ELSE {})
           \cup (IF b.browser # 0 THEN {"browser_close_failed"} ELSE {})

\* close_context(): closes self.context and clears the field.
close_context(b, ok) ==
    IF b.context # 0 /\ ok THEN [b EXCEPT !.context = 0] ELSE b

\* A close() that closes the context without clearing self.context.
close_KeepsContext(b, o) ==
    IF o = "context_close_failed" THEN b
    ELSE IF b.browser # 0 /\ o = "ok"
         THEN [b EXCEPT !.browser = 0, !.open = b.open \ {b.browser}]
         ELSE b

\* close(): close_context(), then browser.close() and self.browser = None.
\* An exception of either close call is logged and re-raised; the fields
\* not yet cleared stay as they are.
close(b, o) ==
    LET b1 == close_context(b, o # "context_close_failed")
    IN  IF o = "context_close_failed" THEN b1
        ELSE IF b1.browser # 0 /\ o = "ok"
             THEN [b1 EXCEPT !.browser = 0, !.open = b1.open \ {b1.browser}]
             ELSE b1

----------------------------------------------------------------------------
\* AntiCrawlerManager (anti_crawler_manager.py) and the executor's own
\* random_delay.

\* random.uniform(a, b): a value between the two arguments, whichever is
\* the larger.
Uniform(a, b) == IF a <= b THEN a..b ELSE b..a

\* A get_delay_time() that draws from the interval whatever random_delay says.
get_delay_time_IgnoresFlag(cfg) == Uniform(cfg.min_delay, cfg.max_delay)

\* get_delay_time()
get_delay_time(cfg) ==
    IF cfg.random_delay THEN Uniform(cfg.min_delay, cfg.max_delay)
    ELSE {cfg.min_delay}

\* A should_delay() that still delays at elapsed = min_delay.
should_delay_Inclusive(last, cfg, t) ==
    IF last = NoTime THEN FALSE
    ELSE (t - last) <= cfg.min_delay

\* A should_delay() that never asks for a delay.
should_delay_Never(last, cfg, t) == FALSE

\* should_delay()
should_delay(last, cfg, t) ==
    IF last = NoTime THEN FALSE
    ELSE (t - last) < cfg.min_delay

\* asyncio.sleep(d): the clock after the sleep (a delay <= 0 returns at once).
AfterSleep(t, d) == IF d > 0 THEN t + d ELSE t

\* Calls of the request handler that can be in progress at a time.
MaxReq == 2

\* The handler calls in progress: the times at which the sleeps of those
\* suspended in asyncio.sleep end, earliest first, and the number of those
\* suspended in request.continue_().
NoRequest == [sleeping |-> <<>>, continuing |-> 0]

InProgress(q) == Len(q.sleeping) + q.continuing

\* A sleep that ends at w begins.
RECURSIVE Asleep(_, _)
Asleep(ws, w) ==
    IF ws = <<>> \/ w <= Head(ws) THEN <<w>> \o ws
    ELSE <<Head(ws)>> \o Asleep(Tail(ws), w)

\* The times at which the sleeps in progress end.
Pending ==
    ({wake} \ {NoTime}) \cup {req.sleeping[k] : k \in DOMAIN req.sleeping}

\* The event loop resumes the sleeper whose time comes first.
MayWake(w) == \A x \in Pending : w <= x

Later(a, b) == IF a >= b THEN a ELSE b

----------------------------------------------------------------------------
\* ActionExecutor.execute_action (action_executor.py, lines 125-243).

\* The delay of the executor's random_delay(min_delay, max_delay).
random_delay(lo, hi) == Uniform(lo, hi)

\* Whether the try block reaches a page primitive: the selector, when there
\* is one, parses, and the verb is one of the if/elif chain.
SelectorParses(a) == a.selector = <<>> \/ AE_parse_selector(a.selector).ok

IssuesPageOp(a) == SelectorParses(a) /\ a.type \in DispatchedVerbs

\* The result of the try block for descriptor a when its page primitive,
\* if one is issued, ends as opOk says.
ActionTry(a, opOk) ==
    IF ~SelectorParses(a) THEN Error("unsupported selector type")
    ELSE IF a.type \in DispatchedVerbs
         THEN IF opOk THEN Success(a.type) ELSE Error("page primitive failed")
    ELSE Error("unsupported action type")

\* Lines 157-243 up to the await of the page primitive, entered at time t
\* with the events `done` logged: the selector, when there is one, is
\* parsed and the page primitive is issued, in one piece with what went
\* before.  When the selector does not parse or the verb is not of the
\* if/elif chain nothing is awaited and the except clause makes the error
\* result at once.
EnterTry(done, t) ==
    /\ log' = done
                \o (IF action.selector # <<>>
                    THEN <<EventAt("parse", idx, t)>> ELSE <<>>)
                \o (IF IssuesPageOp(action)
                    THEN <<EventAt("page_op", idx, t)>> ELSE <<>>)
    /\ IF IssuesPageOp(action)
       THEN pc' = "ea_try" /\ result' = result
       ELSE pc' = "ea_return" /\ result' = ActionTry(action, TRUE)
    /\ exc' = exc

\* Lines 140-142: action.get(...), which raises AttributeError for a
\* descriptor that is no dict; without a page the call goes on to launch()
\* (line 146), with one to the try block.
EaGetType(done, t) ==
    IF ~action.isdict
    THEN /\ exc' = "AttributeError"
         /\ pc' = "ea_raise"
         /\ log' = done /\ result' = result
    ELSE IF page = 0
    THEN /\ exc' = exc
         /\ pc' = "ea_launch"
         /\ log' = done /\ result' = result
    ELSE EnterTry(done, t)

\* A gate that suspends only when should_delay() says so.
EaGate_OnlyIfShouldDelay ==
    /\ pc = "ea_gate"
    /\ IF /\ anti_crawler_enabled
          /\ should_delay(last_request_time, delay_config, now)
       THEN /\ \E d \in random_delay(min_delay, max_delay) :
                    wake' = AfterSleep(now, d)
            /\ pc' = "ea_sleep" /\ exc' = exc
            /\ UNCHANGED <<log, result>>
       ELSE wake' = wake /\ EaGetType(log, now)
    /\ UNCHANGED <<bmVars, cfgVars, poolVars, selVars, extVars0, req,
                   gateVars, now, mode, workflow, idx, page,
                   action, results, outcome, closeCalls, calls>>

\* Lines 133-138: with the anti-crawler enabled the call suspends in
\* random_delay(), an asyncio.sleep of uniform(min_delay, max_delay).
EaGate ==
    /\ pc = "ea_gate"
    /\ IF anti_crawler_enabled
       THEN /\ \E d \in random_delay(min_delay, max_delay) :
                    wake' = AfterSleep(now, d)
            /\ pc' = "ea_sleep" /\ exc' = exc
            /\ UNCHANGED <<log, result>>
       ELSE wake' = wake /\ EaGetType(log, now)
    /\ UNCHANGED <<bmVars, cfgVars, poolVars, selVars, extVars0, req,
                   gateVars, now, mode, workflow, idx, page,
                   action, results, outcome, closeCalls, calls>>

\* The sleep of random_delay() ends and the call goes on to action.get
\* and, with a page, into the try block.
EaWake ==
    /\ pc = "ea_sleep" /\ MayWake(wake)
    /\ now' = Later(now, wake)
    /\ wake' = NoTime
    /\ EaGetType(Append(log, EventAt("sleep", idx, Later(now, wake))),
                 Later(now, wake))
    /\ UNCHANGED <<bmVars, cfgVars, poolVars, selVars, extVars0, req,
                   gateVars, mode, workflow, idx, page,
                   action, results, outcome, closeCalls, calls>>

\* Line 146, when no page was supplied.
EaLaunch ==
    /\ pc = "ea_launch"
    /\ \E ok \in LaunchOutcomes :
        /\ bm' = launch(bm, ok)
        /\ log' = Append(log, Event("launch", idx))
        /\ IF ok THEN pc' = "ea_context" /\ exc' = exc
           ELSE pc' = "ea_raise" /\ exc' = "launch failed"
    /\ UNCHANGED <<cfgVars, poolVars, selVars, extVars,
                   gateVars, now, mode, workflow, idx, page, action,
                   result, results, outcome, closeCalls, calls>>

\* Line 147.
EaContext ==
    /\ pc = "ea_context"
    /\ \E o \in ContextOutcomes(bm) :
        /\ bm' = create_context(bm, o)
        /\ log' = Append(log, Event("new_context", idx))
        /\ IF o = "ok" THEN pc' = "ea_page" /\ exc' = exc
           ELSE pc' = "ea_raise" /\ exc' = o
    /\ UNCHANGED <<cfgVars, poolVars, selVars, extVars,
                   gateVars, now, mode, workflow, idx, page, action,
                   result, results, outcome, closeCalls, calls>>

\* Line 148.
EaPage ==
    /\ pc = "ea_page"
    /\ \E o \in PageOutcomes(bm) :
        /\ bm' = new_page(bm, o)
        /\ page' = NewPageId(bm, o)
        /\ log' = Append(log, Event("new_page", idx))
        /\ IF o = "ok" THEN pc' = "ea_headers" /\ exc' = exc
           ELSE pc' = "ea_raise" /\ exc' = o
    /\ UNCHANGED <<cfgVars, poolVars, selVars, extVars,
                   gateVars, now, mode, workflow, idx, action,
                   result, results, outcome, closeCalls, calls>>

\* Lines 151-155: the rotated User-Agent header of the fresh page; then
\* the try block.
EaHeaders ==
    /\ pc = "ea_headers"
    /\ IF anti_crawler_enabled
       THEN \E ok \in BOOLEAN :
                IF ok
                THEN EnterTry(Append(log, Event("set_headers", idx)), now)
                ELSE /\ log' = Append(log, Event("set_headers", idx))
                     /\ pc' = "ea_raise"
                     /\ exc' = "set_extra_http_headers failed"
                     /\ result' = result
       ELSE EnterTry(log, now)
    /\ UNCHANGED <<bmVars, cfgVars, poolVars, selVars, extVars,
                   gateVars, now, mode, workflow, idx, page,
                   action, results, outcome, closeCalls, calls>>

\* Lines 167-243: the awaited page primitive ends; its exception is turned
\* into an error result by the except clause.
EaTry ==
    /\ pc = "ea_try"
    /\ \E opOk \in BOOLEAN :
        /\ result' = ActionTry(action, opOk)
        /\ log' = IF opOk THEN log
                  ELSE Append(log, Event("page_op_failed", idx))
    /\ pc' = "ea_return"
    /\ UNCHANGED <<bmVars, cfgVars, poolVars, selVars, extVars,
                   gateVars, now, mode, workflow, idx, page,
                   action, results, exc, outcome, closeCalls, calls>>

\* A top-level execute_action(action, page) call with a descriptor of A and
\* a page of P: page = 0 is page=None, -1 a page the caller supplies.  The
\* call is action 1 of its own run.
CallAction(A, P) ==
    /\ pc = "idle" /\ calls < MaxCalls
    /\ \E a \in A, p \in P :
        /\ action' = a
        /\ page' = p
    /\ mode' = "action"
    /\ pc' = "ea_gate"
    /\ workflow' = <<>> /\ idx' = 1 /\ results' = <<>> /\ result' = NoResult
    /\ exc' = "" /\ outcome' = "running" /\ closeCalls' = 0
    /\ log' = <<Event("start", last_request_time)>>
    /\ calls' = calls + 1
    /\ UNCHANGED <<bmVars, cfgVars, poolVars, selVars, extVars, gateVars, now>>

\* The tests call execute_action(action) without a page.
StartAction == CallAction(AllActions, {0})

\* execute_action returns its result to the top-level caller.
ActionReturn ==
    /\ pc = "ea_return" /\ mode = "action"
    /\ outcome' = "returned"
    /\ pc' = "idle"
    /\ UNCHANGED <<bmVars, cfgVars, poolVars, selVars, extVars,
                   gateVars, now, mode, workflow, idx, page,
                   action, result, results, exc, log, closeCalls, calls>>

\* An exception leaves execute_action and reaches the top-level caller.
ActionRaise ==
    /\ pc = "ea_raise" /\ mode = "action"
    /\ outcome' = "raised"
    /\ pc' = "idle"
    /\ UNCHANGED <<bmVars, cfgVars, poolVars, selVars, extVars,
                   gateVars, now, mode, workflow, idx, page,
                   action, result, results, exc, log, closeCalls, calls>>

----------------------------------------------------------------------------
\* ActionExecutor.execute_workflow (action_executor.py, lines 245-277).

\* A run that returns at once for an empty descriptor list.
StartWorkflow_EmptyShortcut ==
    /\ pc = "idle" /\ calls < MaxCalls
    /\ \E w \in Workflows :
        /\ workflow' = w
        /\ pc' = IF w = <<>> THEN "idle" ELSE "wf_launch"
        /\ outcome' = IF w = <<>> THEN "returned" ELSE "running"
    /\ mode' = "workflow"
    /\ idx' = 0 /\ page' = 0 /\ action' = NoAction /\ result' = NoResult
    /\ results' = <<>>
    /\ exc' = "" /\ closeCalls' = 0
    /\ log' = <<Event("start", last_request_time)>>
    /\ calls' = calls + 1
    /\ UNCHANGED <<bmVars, cfgVars, poolVars, selVars, extVars, gateVars, now>>

StartWorkflow ==
    /\ pc = "idle" /\ calls < MaxCalls
    /\ \E w \in Workflows : workflow' = w
    /\ mode' = "workflow"
    /\ pc' = "wf_launch"
    /\ idx' = 0 /\ page' = 0 /\ action' = NoAction /\ result' = NoResult
    /\ results' = <<>>
    /\ exc' = "" /\ outcome' = "running" /\ closeCalls' = 0
    /\ log' = <<Event("start", last_request_time)>>
    /\ calls' = calls + 1
    /\ UNCHANGED <<bmVars, cfgVars, poolVars, selVars, extVars, gateVars, now>>

\* Line 255.
WfLaunch ==
    /\ pc = "wf_launch"
    /\ \E ok \in LaunchOutcomes :
        /\ bm' = launch(bm, ok)
        /\ log' = Append(log, Event("launch", 0))
        /\ IF ok THEN pc' = "wf_context" /\ exc' = exc
           ELSE pc' = "wf_except" /\ exc' = "launch failed"
    /\ UNCHANGED <<cfgVars, poolVars, selVars, extVars,
                   gateVars, now, mode, workflow, idx, page, action,
                   result, results, outcome, closeCalls, calls>>

\* Line 256.
WfContext ==
    /\ pc = "wf_context"
    /\ \E o \in ContextOutcomes(bm) :
        /\ bm' = create_context(bm, o)
        /\ log' = Append(log, Event("new_context", 0))
        /\ IF o = "ok" THEN pc' = "wf_page" /\ exc' = exc
           ELSE pc' = "wf_except" /\ exc' = o
    /\ UNCHANGED <<cfgVars, poolVars, selVars, extVars,
                   gateVars, now, mode, workflow, idx, page, action,
                   result, results, outcome, closeCalls, calls>>

\* Line 257.
WfPage ==
    /\ pc = "wf_page"
    /\ \E o \in PageOutcomes(bm) :
        /\ bm' = new_page(bm, o)
        /\ page' = NewPageId(bm, o)
        /\ log' = Append(log, Event("new_page", 0))
        /\ IF o = "ok" THEN pc' = "wf_loop" /\ exc' = exc
           ELSE pc' = "wf_except" /\ exc' = o
    /\ UNCHANGED <<cfgVars, poolVars, selVars, extVars,
                   gateVars, now, mode, workflow, idx, action,
                   result, results, outcome, closeCalls, calls>>

\* Lines 259-260: the next descriptor is passed to execute_action with the
\* run's page, or the loop is exhausted.
WfLoop ==
    /\ pc = "wf_loop"
    /\ IF idx < Len(workflow)
       THEN /\ idx' = idx + 1
            /\ action' = workflow[idx + 1]
            /\ log' = Append(log, Event("execute_action", idx + 1))
            /\ pc' = "ea_gate"
       ELSE /\ pc' = "wf_finally"
            /\ UNCHANGED <<idx, action, log>>
    /\ UNCHANGED <<bmVars, cfgVars, poolVars, selVars, extVars,
                   gateVars, now, mode, workflow, page,
                   result, results, exc, outcome, closeCalls, calls>>

\* A loop without the break.
WfAppend_NoBreak ==
    /\ pc = "ea_return" /\ mode = "workflow"
    /\ results' = Append(results, result)
    /\ log' = Append(log, Event(result.status, idx))
    /\ pc' = "wf_loop"
    /\ UNCHANGED <<bmVars, cfgVars, poolVars, selVars, extVars,
                   gateVars, now, mode, workflow, idx, page,
                   action, result, exc, outcome, closeCalls, calls>>

\* A loop that breaks on an error result before appending it.
WfAppend_BreakBeforeAppend ==
    /\ pc = "ea_return" /\ mode = "workflow"
    /\ IF result.status = "error"
       THEN pc' = "wf_finally" /\ UNCHANGED <<results, log>>
       ELSE /\ pc' = "wf_loop"
            /\ results' = Append(results, result)
            /\ log' = Append(log, Event(result.status, idx))
    /\ UNCHANGED <<bmVars, cfgVars, poolVars, selVars, extVars,
                   gateVars, now, mode, workflow, idx, page,
                   action, result, exc, outcome, closeCalls, calls>>

\* Lines 261-265: the result is appended; an error result breaks the loop.
WfAppend ==
    /\ pc = "ea_return" /\ mode = "workflow"
    /\ results' = Append(results, result)
    /\ log' = Append(log, Event(result.status, idx))
    /\ pc' = IF result.status = "error" THEN "wf_finally" ELSE "wf_loop"
    /\ UNCHANGED <<bmVars, cfgVars, poolVars, selVars, extVars,
                   gateVars, now, mode, workflow, idx, page,
                   action, result, exc, outcome, closeCalls, calls>>

\* An exception of execute_action reaches the except clause of the run.
WfCatch ==
    /\ pc = "ea_raise" /\ mode = "workflow"
    /\ pc' = "wf_except"
    /\ UNCHANGED <<bmVars, cfgVars, poolVars, selVars, extVars,
                   gateVars, now, mode, workflow, idx, page,
                   action, result, results, exc, outcome, log, closeCalls,
                   calls>>

\* An except clause that returns without reaching the release.
WfExcept_NoRelease ==
    /\ pc = "wf_except"
    /\ results' = Append(results, Error(exc))
    /\ log' = Append(log, Event("error", idx))
    /\ exc' = ""
    /\ pc' = "idle"
    /\ outcome' = "returned"
    /\ UNCHANGED <<bmVars, cfgVars, poolVars, selVars, extVars,
                   gateVars, now, mode, workflow, idx, page,
                   action, result, closeCalls, calls>>

\* Lines 267-272: one synthetic error result.
WfExcept ==
    /\ pc = "wf_except"
    /\ results' = Append(results, Error(exc))
    /\ log' = Append(log, Event("error", idx))
    /\ exc' = ""
    /\ pc' = "wf_finally"
    /\ UNCHANGED <<bmVars, cfgVars, poolVars, selVars, extVars,
                   gateVars, now, mode, workflow, idx, page,
                   action, result, outcome, closeCalls, calls>>

\* Lines 274-277: the finally clause awaits browser_manager.close(); when
\* close() raises, the exception leaves execute_workflow, otherwise the
\* results are returned.
WfFinally ==
    /\ pc = "wf_finally"
    /\ \E o \in CloseOutcomes(bm) :
        /\ bm' = close(bm, o)
        /\ IF o = "ok" THEN outcome' = "returned" /\ exc' = exc
           ELSE outcome' = "raised" /\ exc' = o
    /\ closeCalls' = closeCalls + 1
    /\ log' = Append(log, Event("close", 0))
    /\ pc' = "idle"
    /\ UNCHANGED <<cfgVars, poolVars, selVars, extVars,
                   gateVars, now, mode, workflow, idx, page, action,
                   result, results, calls>>

----------------------------------------------------------------------------
\* AntiCrawlerManager: the pools and their files (anti_crawler_manager.py).

MaxPool == 1

\* The five built-in user agents of _load_user_agents.
DefaultAgents == <<"ua1", "ua2", "ua3", "ua4", "ua5">>

\* A file under config/: absent, written with a JSON content, or left
\* truncated by a write that failed after open(path, 'w').
NoFile(empty) == [st |-> "absent", content |-> empty]

WrittenFile(content) == [st |-> "written", content |-> content]

CorruptFile(empty) == [st |-> "corrupt", content |-> empty]

\* with open(config_path, 'w') as f: json.dump(content, f): it succeeds,
\* or makedirs/open raises (the file is untouched), or the dump raises
\* after the file was truncated.
WriteOutcomes == {"ok", "open_failed", "dump_failed"}

write_file(file, content, o, empty) ==
    IF o = "ok" THEN WrittenFile(content)
    ELSE IF o = "open_failed" THEN file
    ELSE CorruptFile(empty)

\* _load_*: the content of an existing, readable file, else the default.
load_file(file, default) ==
    IF file.st = "written" THEN file.content ELSE default

Contains(s, x) == \E i \in 1..Len(s) : s[i] = x

\* list.remove(x): the first occurrence goes.
Remove(s, x) ==
    LET k == IndexOf(s, x)
    IN  IF k = 0 THEN s
        ELSE SubSeq(s, 1, k - 1) \o SubSeq(s, k + 1, Len(s))

\* save_user_agents(user_agents): the file is written, then the list is
\* assigned; an exception of the write leaves self.user_agents as it is.
save_user_agents(mem, file, arg, o) ==
    [file |-> write_file(file, arg, o, <<>>),
     mem |-> IF o = "ok" THEN arg ELSE mem,
     raised |-> o # "ok", changed |-> TRUE, intended |-> arg]

\* save_proxies(proxies)
save_proxies(mem, file, arg, o) ==
    [file |-> write_file(file, arg, o, <<>>),
     mem |-> IF o = "ok" THEN arg ELSE mem,
     raised |-> o # "ok", changed |-> TRUE, intended |-> arg]

Untouched(mem, file) ==
    [file |-> file, mem |-> mem, raised |-> FALSE, changed |-> FALSE,
     intended |-> mem]

\* add_user_agent: appended in place, then saved.
add_user_agent(mem, file, ua, o) ==
    IF ~Contains(mem, ua)
    THEN save_user_agents(Append(mem, ua), file, Append(mem, ua), o)
    ELSE Untouched(mem, file)

\* remove_user_agent: removed in place, then saved.
remove_user_agent(mem, file, ua, o) ==
    IF Contains(mem, ua)
    THEN save_user_agents(Remove(mem, ua), file, Remove(mem, ua), o)
    ELSE Untouched(mem, file)

\* add_proxy: only a proxy that validate_proxy accepts is appended and saved.
add_proxy(mem, file, proxy, valid, o) ==
    IF valid
    THEN save_proxies(Append(mem, proxy), file, Append(mem, proxy), o)
    ELSE Untouched(mem, file)

\* remove_proxy
remove_proxy(mem, file, proxy, o) ==
    IF Contains(mem, proxy)
    THEN save_proxies(Remove(mem, proxy), file, Remove(mem, proxy), o)
    ELSE Untouched(mem, file)

\* _load_delay_config(): the default delay policy.
DefaultDelayConfig == [min_delay |-> 1, max_delay |-> 3, random_delay |-> TRUE]

\* No file exists under config/ before the first save.
EmptyStore ==
    [delay_config |-> NoFile(DefaultDelayConfig),
     user_agents |-> NoFile(<<>>), proxies |-> NoFile(<<>>)]

----------------------------------------------------------------------------
\* WorkflowEngine (workflow_engine.py) and the rows of its persistence
\* collaborator, crud_manager.

MaxSteps == 3
MaxOrder == 2

\* create_page(): create_context() when there is no context, then a new
\* page of self.context.  It raises unless o = "ok".
create_page(b, o) ==
    LET b1 == IF b.context = 0
              THEN create_context(b, IF o \in {"ok", "page_failed"} THEN "ok"
                                     ELSE o)
              ELSE b
    IN  IF o = "ok" THEN [b1 EXCEPT !.nextId = b1.nextId + 1] ELSE b1

\* The 'type' key of a step row, which ActionExecutor reads: absent ("")
\* in a row of the workflow_steps table, or a verb.
StepTypes == {"", "goto"}

\* A row of workflow_steps: its id is its place in the returned list.
StepRow(i, o, t) ==
    [type |-> t, id |-> i, step_order |-> o, action_type |-> "goto"]

\* What get_workflow_steps may return: up to MaxSteps rows in any order.
StepLists ==
    UNION {{[i \in 1..k |-> StepRow(i, o[i], t[i])] :
               o \in [1..k -> 1..MaxOrder], t \in [1..k -> StepTypes]} :
           k \in 0..MaxSteps}

\* The collaborator hands back rows (a synchronous store, a mock), or,
\* as the async methods of the repository's CRUDManager do when they are
\* called without await, a coroutine object.
Collaborators == {"rows", "coroutine"}

\* x placed after every row whose step_order is not larger.
InsertStep(x, S) ==
    LET k == Cardinality({i \in 1..Len(S) : S[i].step_order <= x.step_order})
    IN  SubSeq(S, 1, k) \o <<x>> \o SubSeq(S, k + 1, Len(S))

\* x placed before every row whose step_order is not smaller.
InsertStepFirst(x, S) ==
    LET k == Cardinality({i \in 1..Len(S) : S[i].step_order < x.step_order})
    IN  SubSeq(S, 1, k) \o <<x>> \o SubSeq(S, k + 1, Len(S))

\* A sort that puts rows of equal step_order in reverse order.
RECURSIVE sorted_TiesReversed(_)
sorted_TiesReversed(steps) ==
    IF steps = <<>> THEN <<>>
    ELSE InsertStepFirst(steps[Len(steps)],
                         sorted_TiesReversed(SubSeq(steps, 1, Len(steps) - 1)))

\* sorted(steps, key=lambda x: x['step_order'])
RECURSIVE sorted(_)
sorted(steps) ==
    IF steps = <<>> THEN <<>>
    ELSE InsertStep(steps[Len(steps)], sorted(SubSeq(steps, 1, Len(steps) - 1)))

\* load_workflow(): None (loaded = FALSE) for a missing workflow; for a
\* coroutine object, which is true, sorted() raises TypeError.
load_workflow(collaborator, found, rows) ==
    IF collaborator = "coroutine"
    THEN [exc |-> "TypeError", steps |-> <<>>, loaded |-> FALSE]
    ELSE IF ~found THEN [exc |-> "", steps |-> <<>>, loaded |-> FALSE]
    ELSE [exc |-> "", steps |-> sorted(rows), loaded |-> TRUE]

\* _get_action_handler(): None (0) for every action type.
get_action_handler(action_type) == 0

\* _execute_step(): ValueError when there is no handler.
execute_step(step) ==
    IF get_action_handler(step.action_type) = 0 THEN "error" ELSE "success"

\* Lines 36-52: the loop over the steps, broken at the first exception.
RECURSIVE run_steps(_, _)
run_steps(steps, i) ==
    IF i > Len(steps) THEN <<>>
    ELSE IF execute_step(steps[i]) = "success"
    THEN <<[status |-> "success", step_id |-> steps[i].id]>>
             \o run_steps(steps, i + 1)
    ELSE <<[status |-> "error", step_id |-> steps[i].id]>>

\* The dict execute_workflow returns: 'completed' with the results, or
\* 'error' without a results key.
Completed(res) == [results |-> res, status |-> "completed", reported |-> TRUE]

Failed == [results |-> <<>>, status |-> "error", reported |-> FALSE]

\* No WorkflowEngine call was made yet.
NoEngCall ==
    [results |-> <<>>, status |-> "", raised |-> FALSE, steps |-> <<>>,
     collaborator |-> "", found |-> FALSE, loaded |-> FALSE,
     reported |-> FALSE, op |-> "", returned |-> <<>>, pageOk |-> FALSE,
     acquire |-> "", release |-> ""]

----------------------------------------------------------------------------
\* Concurrent runs of ActionExecutor.execute_workflow on one executor.

MaxRuns == 2

Runs == 1..MaxRuns

\* A run: the await it is suspended in and the object that await was
\* called on, the browser it launched, the context it created and the
\* browser that context is of, its page and the context that page is of,
\* the descriptors left and the statuses recorded.
NoRun ==
    [pc |-> "idle", page |-> 0, browser |-> 0, context |-> 0, ctxIn |-> 0,
     pageIn |-> 0, left |-> 0, statuses |-> <<>>, recv |-> 0]

\* No browser object exists yet.
NoWorld == [closed |-> {}, inBrowser |-> {}]

\* The browser a context was created in.
BrowserOf(w, c) ==
    IF \E pr \in w.inBrowser : pr[1] = c
    THEN (CHOOSE pr \in w.inBrowser : pr[1] = c)[2]
    ELSE 0

\* browser.new_context() returned context c: the context is of the
\* browser the call was made on, whatever self.browser holds by then.
Created(w, c, recv) == [w EXCEPT !.inBrowser = @ \cup {<<c, recv>>}]

\* close() of a context or a browser returned: the object the call was
\* made on is closed, whatever the manager's field holds by then.
Closed(w, recv) == [w EXCEPT !.closed = @ \cup {recv}]

\* A page answers as long as its context and that context's browser are
\* open.
Alive(w, c) == c \notin w.closed /\ BrowserOf(w, c) \notin w.closed

----------------------------------------------------------------------------
\* A BrowserManager of its own, called by one sequential caller
\* (browser_manager.py).

MaxOps == 3
MaxRetries == 2

\* The close calls close() issues on the objects the manager holds: the
\* context's when self.context is set, then the browser's when
\* self.browser is set and the context's close did not raise.
close_calls(b, o) ==
    (IF b.context # 0 THEN {"context.close"} ELSE {})
        \cup (IF b.browser # 0 /\ o # "context_close_failed"
              THEN {"browser.close"} ELSE {})

\* What a call of new_page_with_retry ends with.
Retried(b, raised, ret, e, trace) ==
    [exc |-> e, b |-> b, raised |-> raised, ret |-> ret, trace |-> trace]

\* The loop of new_page_with_retry, lines 186-195, from attempt k of n: the
\* set of ways it can end.  A successful create_page() is returned; the
\* failure of the last attempt is re-raised; after any other failure the
\* loop calls close_context(), whose own exception leaves the method.  A
\* loop that runs out of attempts falls off the method, which returns None.
RECURSIVE retry_loop(_, _, _, _)
retry_loop(b, n, k, trace) ==
    IF k > n THEN {Retried(b, FALSE, 0, "", trace)}
    ELSE UNION {
        LET b1 == create_page(b, o)
        IN  IF o = "ok"
            THEN {Retried(b1, FALSE, NewPageId(b, o), "",
                          Append(trace, "page"))}
            ELSE IF k = n
            THEN {Retried(b1, TRUE, 0, o, Append(trace, "failed"))}
            ELSE UNION {
                IF c
                THEN retry_loop(close_context(b1, TRUE), n, k + 1,
                                trace \o <<"failed", "close_context">>)
                ELSE {Retried(b1, TRUE, 0, "context_close_failed",
                              trace \o <<"failed", "close_context">>)}
                : c \in IF b1.context # 0 THEN BOOLEAN ELSE {TRUE} }
        : o \in PageOutcomes(b) }

\* The seconds new_page_with_retry slept: asyncio.sleep(1), line 194,
\* before each close_context() of line 195.
Slept(trace) ==
    Cardinality({k \in DOMAIN trace : trace[k] = "close_context"})

\* new_page_with_retry(max_retries = n), lines 176-195: without a browser
\* it raises when n <= 0 and calls init() otherwise.
new_page_with_retry(b, n) ==
    IF b.browser = 0
    THEN IF n <= 0 THEN {Retried(b, TRUE, 0, "not_initialized", <<>>)}
         ELSE {Retried(b, TRUE, 0, "init_failed", <<>>)}
                  \cup retry_loop(init(b, TRUE), n, 1, <<>>)
    ELSE retry_loop(b, n, 1, <<>>)

\* No call was made on the manager yet.
NoBxCall ==
    [exc |-> "", arg |-> 0, raised |-> FALSE, op |-> "", ret |-> 0,
     trace |-> <<>>, before |-> NewManager, issued |-> {}, count |-> 0]

ExtInit ==
    /\ eng = NoEngCall
    /\ rn = [r \in Runs |-> NoRun]
    /\ world = NoWorld
    /\ bx = NoBxCall
    /\ wake = NoTime
    /\ req = NoRequest

\* No administration call and no SelectorEngine call was made yet.
NoCall ==
    [arg |-> "", raised |-> FALSE, changed |-> FALSE, intended |-> "",
     op |-> "", ret |-> "", before |-> <<>>]

NoSelCall ==
    [page |-> "", outcome |-> "", selector |-> <<>>, type |-> "",
     value |-> <<>>, op |-> "", ret |-> "", queried |-> FALSE,
     query |-> <<>>, cause |-> "", carries |-> <<>>]

\* AntiCrawlerManager.__init__ loads the built-in pools; no call was made.
NoCalls ==
    /\ user_agents = DefaultAgents /\ proxies = <<>>
    /\ acm = NoCall /\ sel = NoSelCall /\ ExtInit

\* AntiCrawlerManager.__init__ with an empty config directory.
PoolInit == store = EmptyStore /\ NoCalls

Init ==
    /\ bm = NewManager
    /\ browser_type \in BrowserTypes
    /\ last_request_time = NoTime
    /\ delay_config = DefaultDelayConfig
    /\ now = 0
    /\ anti_crawler_enabled \in BOOLEAN
    /\ min_delay = 1 /\ max_delay = 1
    /\ pc = "idle" /\ mode = "" /\ workflow = <<>> /\ idx = 0 /\ page = 0
    /\ action = NoAction /\ result = NoResult /\ results = <<>> /\ exc = ""
    /\ outcome = "" /\ log = <<>> /\ closeCalls = 0 /\ calls = 0
    /\ PoolInit

ExecuteAction ==
    \/ EaGate \/ EaWake \/ EaLaunch \/ EaContext \/ EaPage \/ EaHeaders \/ EaTry

ExecuteWorkflow ==
    \/ WfLaunch \/ WfContext \/ WfPage \/ WfLoop \/ WfAppend \/ WfCatch
    \/ WfExcept \/ WfFinally

Next ==
    \/ StartWorkflow \/ ExecuteWorkflow
    \/ StartAction \/ ExecuteAction \/ ActionReturn \/ ActionRaise

Spec == Init /\ [][Next]_vars

----------------------------------------------------------------------------
\* The gates of BrowserManager: navigate (browser_manager.py, lines
\* 197-221) and the request handler (lines 142-152), both on the manager's
\* AntiCrawlerManager, and the administration of its delay policy.

\* should_delay() is consulted; when it is false the request time is
\* recorded at once (update_last_request_time) and the gated operation
\* starts, otherwise the caller suspends in asyncio.sleep(get_delay_time()).
GateCheck(here, sleeping, op, opKind) ==
    /\ pc = here
    /\ LET sd == should_delay(last_request_time, delay_config, now)
       IN  /\ pc' = IF sd THEN sleeping ELSE op
           /\ IF sd
              THEN \E d \in get_delay_time(delay_config) :
                       /\ AfterSleep(now, d) <= MaxTime
                       /\ wake' = AfterSleep(now, d)
              ELSE wake' = wake
           /\ last_request_time' = IF sd THEN last_request_time ELSE now
           /\ log' = log \o <<Event("should_delay", IF sd THEN 1 ELSE 0)>>
                          \o (IF sd THEN <<>>
                              ELSE <<Event("timestamp", 0), Event(opKind, 0)>>)
    /\ UNCHANGED <<bmVars, cfgVars, poolVars, selVars, extVars0, req,
                   delay_config, now, mode, workflow, idx,
                   page, action, result, results, exc, outcome, closeCalls,
                   calls>>

\* The sleep ends; the request time is recorded and the gated operation
\* starts.
GateSleep(sleeping, op, opKind) ==
    /\ pc = sleeping /\ MayWake(wake)
    /\ LET t == Later(now, wake)
           d == wake - log[Len(log)].t
       IN  /\ now' = t
           /\ last_request_time' = t
           /\ log' = log \o <<EventAt("sleep", d, t),
                              EventAt("timestamp", 0, t),
                              EventAt(opKind, 0, t)>>
    /\ wake' = NoTime
    /\ pc' = op
    /\ UNCHANGED <<bmVars, cfgVars, poolVars, selVars, extVars0, req,
                   delay_config, mode, workflow, idx, page,
                   action, result, results, exc, outcome, closeCalls, calls>>

\* The gated operation (page.goto) ends; its exception, if any, reaches
\* the caller.
GateOp(op) ==
    /\ pc = op
    /\ \E ok \in BOOLEAN : outcome' = IF ok THEN "returned" ELSE "raised"
    /\ pc' = "idle"
    /\ UNCHANGED <<bmVars, cfgVars, poolVars, selVars, extVars,
                   gateVars, now, mode, workflow, idx, page,
                   action, result, results, exc, log, closeCalls, calls>>

\* A top-level call of navigate.
CallGate(m, first) ==
    /\ pc = "idle"
    /\ mode' = m
    /\ pc' = first
    /\ page' = -1
    /\ workflow' = <<>> /\ idx' = 0 /\ results' = <<>> /\ result' = NoResult
    /\ action' = NoAction
    /\ exc' = "" /\ outcome' = "running" /\ closeCalls' = 0
    /\ log' = <<Event("start", last_request_time)>>
    /\ UNCHANGED <<bmVars, cfgVars, poolVars, selVars, extVars, gateVars,
                   now, calls>>

StartNavigate == CallGate("navigate", "nav_check")

NavCheck == GateCheck("nav_check", "nav_sleep", "nav_goto", "goto")

NavSleep == GateSleep("nav_sleep", "nav_goto", "goto")

NavGoto == GateOp("nav_goto")

\* What the gates of handler calls leave alone.
handlerFrame == <<bmVars, cfgVars, poolVars, selVars, extVars0, wake,
                  delay_config, callVars>>

\* The page issues a request and handle_request (lines 142-152) runs to its
\* first await: asyncio.sleep when should_delay() is true, else
\* request.continue_() after the request time was recorded.  Requests come
\* at any time the caller is suspended or between calls, whatever other
\* handler calls are in progress.
StartHandler ==
    /\ InProgress(req) < MaxReq /\ pc # "nav_check"
    /\ IF should_delay(last_request_time, delay_config, now)
       THEN /\ \E d \in get_delay_time(delay_config) :
                /\ AfterSleep(now, d) <= MaxTime
                /\ req' = [req EXCEPT !.sleeping =
                                          Asleep(@, AfterSleep(now, d))]
            /\ UNCHANGED last_request_time
       ELSE /\ req' = [req EXCEPT !.continuing = @ + 1]
            /\ last_request_time' = now
    /\ UNCHANGED <<handlerFrame, now>>

\* The sleep of a handler call ends: it records the request time and
\* awaits request.continue_().  No sleep ends while the caller runs from
\* its call to its own first await (navigate up to line 209 or 216,
\* execute_action up to the sleep of random_delay).
HrSleep ==
    /\ req.sleeping # <<>> /\ MayWake(Head(req.sleeping))
    /\ pc \notin {"nav_check", "ea_gate"}
    /\ now' = Later(now, Head(req.sleeping))
    /\ last_request_time' = Later(now, Head(req.sleeping))
    /\ req' = [sleeping |-> Tail(req.sleeping),
               continuing |-> req.continuing + 1]
    /\ UNCHANGED handlerFrame

\* request.continue_() ends; the handler call is over (its exception, if
\* any, does not reach the caller of navigate).
HrContinue ==
    /\ req.continuing > 0
    /\ req' = [req EXCEPT !.continuing = @ - 1]
    /\ UNCHANGED <<handlerFrame, last_request_time, now>>

\* Time passes while the caller is suspended (in a sleep, in page.goto of
\* navigate, in the page primitive of execute_action) or between calls, up
\* to the end of the next sleep.
Tick ==
    /\ pc \in {"idle", "nav_goto", "nav_sleep", "ea_sleep", "ea_try"}
    /\ now < MaxTime
    /\ \A x \in Pending : x > now
    /\ now' = now + 1
    /\ UNCHANGED <<bmVars, cfgVars, poolVars, selVars, extVars, gateVars,
                   callVars>>

\* save_delay_config(): the file is written first; only when that succeeded
\* is the new policy assigned to self.delay_config.
save_delay_config(cfg, config, saved) == IF saved THEN config ELSE cfg

\* update_delay_config(min_delay, max_delay, random_delay): no validation.
update_delay_config(cfg, mn, mx, r, saved) ==
    save_delay_config(cfg, [min_delay |-> mn, max_delay |-> mx,
                            random_delay |-> r], saved)

\* An execute_action call on a page of the caller.
StartGatedAction == CallAction({Descriptor("goto", S_none)}, {-1})

\* The policy and its file before the first gated call: those of the
\* constructor with an empty config directory when the write of
\* update_delay_config(mn, mx, r) was never made or failed at open(), else
\* what that call left (lines 114-123, 183-190).
PolicyInit ==
    \E mn \in 0..MaxDelay, mx \in 0..MaxDelay, r \in BOOLEAN,
       o \in WriteOutcomes :
        /\ delay_config =
               update_delay_config(DefaultDelayConfig, mn, mx, r, o = "ok")
        /\ store = [EmptyStore EXCEPT !.delay_config =
                        write_file(@, [min_delay |-> mn, max_delay |-> mx,
                                       random_delay |-> r],
                                   o, DefaultDelayConfig)]

\* A manager and an executor before the first gated call.
InitGate ==
    /\ bm = NewManager
    /\ browser_type = "chromium"
    /\ last_request_time = NoTime
    /\ PolicyInit
    /\ now = 0
    /\ anti_crawler_enabled \in BOOLEAN
    /\ min_delay = 1 /\ max_delay = 2
    /\ pc = "idle" /\ mode = "" /\ workflow = <<>> /\ idx = 0 /\ page = 0
    /\ action = NoAction /\ result = NoResult /\ results = <<>> /\ exc = ""
    /\ outcome = "" /\ log = <<>> /\ closeCalls = 0 /\ calls = 0
    /\ NoCalls

NextGate ==
    \/ StartNavigate \/ NavCheck \/ NavSleep \/ NavGoto
    \/ StartHandler \/ HrSleep \/ HrContinue
    \/ StartGatedAction \/ EaGate \/ EaWake \/ EaTry \/ ActionReturn
    \/ Tick

SpecGate == InitGate /\ [][NextGate]_vars

----------------------------------------------------------------------------
\* Administration of the AntiCrawlerManager (anti_crawler_manager.py,
\* lines 63-78 and 92-190).  The methods are synchronous: one action each.

\* A built-in user agent and one that is not built in.
UAArgs == {"ua1", "X"}

\* The lists save_user_agents is called with: up to MaxSaved entries, so
\* that one entry may occur twice.
MaxSaved == 2

UALists == SeqsUpTo({"X"}, MaxSaved)

ProxyArgs == {"p1"}

ProxyLists == SeqsUpTo(ProxyArgs, MaxPool)

\* The record of an administration call: whether it raised, what it meant
\* to store, its argument, the pool before it and whether it changed it.
Called(name, r, arg, before) ==
    [arg |-> arg, raised |-> r.raised, changed |-> r.changed,
     intended |-> r.intended, op |-> name, ret |-> "", before |-> before]

adminFrame0 == <<bmVars, cfgVars, gateVars, now, callVars>>

adminFrame == <<adminFrame0, selVars, extVars>>

AddUserAgent ==
    \E ua \in UAArgs, o \in WriteOutcomes :
        LET r == add_user_agent(user_agents, store.user_agents, ua, o)
        IN  /\ user_agents' = r.mem
            /\ store' = [store EXCEPT !.user_agents = r.file]
            /\ acm' = Called("add_user_agent", r, ua, user_agents)
            /\ UNCHANGED <<adminFrame, proxies>>

RemoveUserAgent ==
    \E ua \in UAArgs, o \in WriteOutcomes :
        LET r == remove_user_agent(user_agents, store.user_agents, ua, o)
        IN  /\ user_agents' = r.mem
            /\ store' = [store EXCEPT !.user_agents = r.file]
            /\ acm' = Called("remove_user_agent", r, ua, user_agents)
            /\ UNCHANGED <<adminFrame, proxies>>

SaveUserAgents ==
    \E list \in UALists, o \in WriteOutcomes :
        LET r == save_user_agents(user_agents, store.user_agents, list, o)
        IN  /\ user_agents' = r.mem
            /\ store' = [store EXCEPT !.user_agents = r.file]
            /\ acm' = Called("save_user_agents", r, list, user_agents)
            /\ UNCHANGED <<adminFrame, proxies>>

\* validate_proxy asks the network: either answer is possible.
AddProxy ==
    /\ Len(proxies) < MaxPool
    /\ \E proxy \in ProxyArgs, valid \in BOOLEAN, o \in WriteOutcomes :
        LET r == add_proxy(proxies, store.proxies, proxy, valid, o)
        IN  /\ proxies' = r.mem
            /\ store' = [store EXCEPT !.proxies = r.file]
            /\ acm' = [Called("add_proxy", r, proxy, proxies) EXCEPT
                          !.ret = IF r.raised THEN ""
                                  ELSE IF valid THEN "True" ELSE "False"]
            /\ UNCHANGED <<adminFrame, user_agents>>

RemoveProxy ==
    \E proxy \in ProxyArgs, o \in WriteOutcomes :
        LET r == remove_proxy(proxies, store.proxies, proxy, o)
        IN  /\ proxies' = r.mem
            /\ store' = [store EXCEPT !.proxies = r.file]
            /\ acm' = Called("remove_proxy", r, proxy, proxies)
            /\ UNCHANGED <<adminFrame, user_agents>>

SaveProxies ==
    \E list \in ProxyLists, o \in WriteOutcomes :
        LET r == save_proxies(proxies, store.proxies, list, o)
        IN  /\ proxies' = r.mem
            /\ store' = [store EXCEPT !.proxies = r.file]
            /\ acm' = Called("save_proxies", r, list, proxies)
            /\ UNCHANGED <<adminFrame, user_agents>>

\* get_random_user_agent: random.choice raises IndexError on an empty list.
GetRandomUserAgent ==
    /\ IF user_agents = <<>>
       THEN acm' = [NoCall EXCEPT !.raised = TRUE, !.intended = <<>>,
                                  !.op = "get_random_user_agent",
                                  !.ret = "IndexError"]
       ELSE \E i \in 1..Len(user_agents) :
               acm' = [NoCall EXCEPT !.intended = <<>>,
                                     !.op = "get_random_user_agent",
                                     !.ret = user_agents[i]]
    /\ UNCHANGED <<adminFrame, user_agents, proxies, store>>

\* AntiCrawlerManager(): a new manager loads the three files.
Construct ==
    /\ user_agents' = load_file(store.user_agents, DefaultAgents)
    /\ proxies' = load_file(store.proxies, <<>>)
    /\ delay_config' = load_file(store.delay_config, DefaultDelayConfig)
    /\ last_request_time' = NoTime
    /\ acm' = [NoCall EXCEPT !.op = "construct"]
    /\ UNCHANGED <<bmVars, cfgVars, now, callVars, selVars, extVars, store>>

\* update_delay_config(min_delay, max_delay, random_delay)
CallUpdateDelayConfig ==
    \E mn \in 0..MaxDelay, mx \in 0..MaxDelay, r \in BOOLEAN,
       o \in WriteOutcomes :
        LET config == [min_delay |-> mn, max_delay |-> mx, random_delay |-> r]
        IN  /\ delay_config' =
                   update_delay_config(delay_config, mn, mx, r, o = "ok")
            /\ store' = [store EXCEPT !.delay_config =
                            write_file(@, config, o, DefaultDelayConfig)]
            /\ acm' = [NoCall EXCEPT !.raised = o # "ok",
                                     !.intended = config,
                                     !.op = "update_delay_config"]
            /\ UNCHANGED <<bmVars, cfgVars, last_request_time, now, callVars,
                           selVars, extVars, user_agents, proxies>>

\* get_delay_time()
GetDelayTime ==
    /\ \E d \in get_delay_time(delay_config) :
           acm' = [NoCall EXCEPT !.intended = delay_config,
                                 !.op = "get_delay_time", !.ret = d]
    /\ UNCHANGED <<adminFrame, user_agents, proxies, store>>

InitAdmin ==
    /\ bm = NewManager
    /\ browser_type = "chromium"
    /\ last_request_time = NoTime
    /\ delay_config = DefaultDelayConfig
    /\ now = 0
    /\ anti_crawler_enabled = TRUE
    /\ min_delay = 1 /\ max_delay = 1
    /\ pc = "idle" /\ mode = "" /\ workflow = <<>> /\ idx = 0 /\ page = 0
    /\ action = NoAction /\ result = NoResult /\ results = <<>> /\ exc = ""
    /\ outcome = "" /\ log = <<>> /\ closeCalls = 0 /\ calls = 0
    /\ PoolInit

NextPool ==
    \/ AddUserAgent \/ RemoveUserAgent \/ SaveUserAgents
    \/ AddProxy \/ RemoveProxy \/ SaveProxies
    \/ GetRandomUserAgent \/ Construct

SpecPool == InitAdmin /\ [][NextPool]_vars

NextDelay == CallUpdateDelayConfig \/ GetDelayTime \/ Construct

SpecDelay == InitAdmin /\ [][NextDelay]_vars

----------------------------------------------------------------------------
\* SelectorEngine.parse_selector (selector_engine.py, lines 75-177).

MaxBody == 3

P_css == <<"c", "s", "s", ":">>
P_xpath == <<"x", "p", "a", "t", "h", ":">>
P_id == <<"i", "d", ":">>
P_name == <<"n", "a", "m", "e", ":">>
P_class == <<"c", "l", "a", "s", "s", ":">>
P_attr == <<"[", "n", "a", "m", "e", "=">>
P_attrq == <<"[", "n", "a", "m", "e", "=", "\"">>

\* str.startswith / str.endswith
StartsWith(s, pre) == Len(s) >= Len(pre) /\ SubSeq(s, 1, Len(pre)) = pre

EndsWith(s, suf) ==
    Len(s) >= Len(suf) /\ SubSeq(s, Len(s) - Len(suf) + 1, Len(s)) = suf

\* s[k:]
From(s, k) == SubSeq(s, k + 1, Len(s))

\* s[6:-1]
Slice6ToLast(s) == SubSeq(s, 7, Len(s) - 1)

\* str.strip('"'): the quotes at both ends go, however many.
StripQuotes(s) ==
    LET keep == {i \in 1..Len(s) : s[i] # "\""}
    IN  IF keep = {} THEN <<>>
        ELSE LET lo == CHOOSE i \in keep : \A j \in keep : i <= j
                 hi == CHOOSE i \in keep : \A j \in keep : j <= i
             IN  SubSeq(s, lo, hi)

\* str.count(c)
Count(s, c) == Cardinality({i \in 1..Len(s) : s[i] = c})

\* any(char in selector for char in chars)
ContainsAny(s, chars) == \E i \in 1..Len(s) : s[i] \in chars

\* _is_valid_css_selector
is_valid_css_selector(v) ==
    /\ ContainsAny(v, {"#", ".", "[", "]", ":", ">"})
    /\ Count(v, "[") = Count(v, "]")

\* _is_valid_xpath_selector
is_valid_xpath_selector(v) ==
    /\ StartsWith(v, <<"/", "/">>) \/ StartsWith(v, <<"(">>)
    /\ ContainsAny(v, {"@", "=", "[", "]"})
    /\ Count(v, "[") = Count(v, "]")

Parsed(t, v) == [ok |-> TRUE, type |-> t, value |-> v]

Invalid(reason) == [ok |-> FALSE, type |-> reason, value |-> <<>>]

\* parse_selector: Parsed(type, value), or Invalid(reason) for the
\* InvalidSelectorError it raises.
parse_selector(selector) ==
    IF selector = <<>> THEN Invalid("empty selector")
    ELSE IF StartsWith(selector, P_css)
    THEN IF From(selector, 4) = <<>> THEN Invalid("empty value")
         ELSE IF ~is_valid_css_selector(From(selector, 4))
              THEN Invalid("invalid css")
         ELSE Parsed("css", From(selector, 4))
    ELSE IF StartsWith(selector, P_xpath)
    THEN IF From(selector, 6) = <<>> THEN Invalid("empty value")
         ELSE IF ~is_valid_xpath_selector(From(selector, 6))
              THEN Invalid("invalid xpath")
         ELSE Parsed("xpath", From(selector, 6))
    ELSE IF StartsWith(selector, P_id)
    THEN IF From(selector, 3) = <<>> THEN Invalid("empty value")
         ELSE Parsed("id", From(selector, 3))
    ELSE IF StartsWith(selector, P_name)
    THEN IF From(selector, 5) = <<>> THEN Invalid("empty value")
         ELSE Parsed("name", From(selector, 5))
    ELSE IF StartsWith(selector, P_class)
    THEN IF From(selector, 6) = <<>> THEN Invalid("empty value")
         ELSE Parsed("class", From(selector, 6))
    ELSE IF StartsWith(selector, P_attr)
    THEN Parsed("name", StripQuotes(Slice6ToLast(selector)))
    ELSE IF StartsWith(selector, <<"#">>) THEN Parsed("id", From(selector, 1))
    ELSE IF StartsWith(selector, <<".">>)
    THEN Parsed("class", From(selector, 1))
    ELSE IF Contains(selector, ":") THEN Invalid("unsupported type")
    ELSE Parsed("css", selector)

----------------------------------------------------------------------------
\* The selector handlers (selector_handlers/*.py) and SelectorEngine's
\* find_element / find_elements (selector_engine.py, lines 179-245).

\* What the page answers to a query: a match, no match (None or an empty
\* list), or an exception of the page capability.
SelPageOutcomes == {"found", "zero", "raises"}

\* The outcome of a lookup: what was returned or which exception left it,
\* the string handed to the page, the cause the exception is chained to and
\* the selector string the exception carries.
Lookup(raised, ret, queried, query, cause, carries) ==
    [outcome |-> raised, ret |-> ret, queried |-> queried, query |-> query,
     cause |-> cause, carries |-> carries]

NotQueried(v) == Lookup("InvalidSelectorError", "", FALSE, <<>>, "", v)

Found(q) == Lookup("returned", "found", TRUE, q, "", <<>>)

NotFound(q, cause) == Lookup("ElementNotFoundError", "", TRUE, q, cause, q)

PageRaised(q) == Lookup("PageError", "", TRUE, q, "PageError", <<>>)

\* str(ElementNotFoundError(selector)): the default text (seven characters,
\* named by their code points), ": " and the selector the error carries.
ElementNotFoundText ==
    <<"U+672A", "U+627E", "U+5230", "U+6307", "U+5B9A", "U+5143", "U+7D20">>

ElementNotFoundError_message(selector) ==
    ElementNotFoundText \o <<":", " ">> \o selector

\* CSSSelectorHandler.find_element / find_elements: every exception of the
\* page is turned into ElementNotFoundError.
css_find(v, p) ==
    IF v = <<>> THEN NotQueried(v)
    ELSE IF p = "found" THEN Found(v)
    ELSE IF p = "zero" THEN NotFound(v, "")
    ELSE NotFound(v, "PageError")

\* XPathSelectorHandler.find_element / find_elements; find_elements also
\* re-raises its own ElementNotFoundError from the except clause.
xpath_find(op, v, p) ==
    IF v = <<>> THEN NotQueried(v)
    ELSE IF ~(StartsWith(v, <<"/", "/">>) \/ StartsWith(v, <<"(">>))
    THEN NotQueried(v)
    ELSE IF p = "found" THEN Found(v)
    ELSE IF p = "zero"
    THEN NotFound(v, IF op = "find_elements" THEN "ElementNotFoundError"
                     ELSE "")
    ELSE NotFound(v, "PageError")

\* ClassSelectorHandler: the value is given its leading '.'.
class_normalize(v) ==
    IF ~StartsWith(v, <<".">>) /\ ~StartsWith(v, P_class) THEN <<".">> \o v
    ELSE IF StartsWith(v, P_class) THEN <<".">> \o From(v, 6)
    ELSE v

\* ClassSelectorHandler.find_element / find_elements: no try block, an
\* exception of the page leaves the handler as it is.
class_find(v, p) ==
    IF v = <<>> THEN NotQueried(v)
    ELSE IF p = "found" THEN Found(class_normalize(v))
    ELSE IF p = "zero" THEN NotFound(class_normalize(v), "")
    ELSE PageRaised(class_normalize(v))

\* A name handler that wraps whatever does not start with 'name:'.
name_normalize_AlwaysWraps(v) ==
    IF StartsWith(v, P_name) THEN P_attrq \o From(v, 5) \o <<"\"", "]">>
    ELSE P_attrq \o v \o <<"\"", "]">>

\* NameSelectorHandler: the value is wrapped as [name="value"].
name_normalize(v) ==
    IF ~StartsWith(v, P_attrq) /\ ~StartsWith(v, P_name)
    THEN P_attrq \o v \o <<"\"", "]">>
    ELSE IF StartsWith(v, P_name) THEN P_attrq \o From(v, 5) \o <<"\"", "]">>
    ELSE v

\* NameSelectorHandler.find_element / find_elements
name_find(v, p) ==
    IF v = <<>> THEN NotQueried(v)
    ELSE IF p = "found" THEN Found(name_normalize(v))
    ELSE IF p = "zero" THEN NotFound(name_normalize(v), "")
    ELSE NotFound(name_normalize(v), "PageError")

\* IDSelectorHandler (its file is not in the repository; from section 4.2
\* of the specification and test_selector_engine_handlers.py): '#' is
\* prepended if absent, zero matches raise ElementNotFoundError.
id_normalize(v) == IF StartsWith(v, <<"#">>) THEN v ELSE <<"#">> \o v

id_find(v, p) ==
    IF v = <<>> THEN NotQueried(v)
    ELSE IF p = "found" THEN Found(id_normalize(v))
    ELSE IF p = "zero" THEN NotFound(id_normalize(v), "")
    ELSE PageRaised(id_normalize(v))

\* self.handlers[selector_type].find_element(s)(selector_value)
handler_find(type, op, v, p) ==
    CASE type = "css" -> css_find(v, p)
      [] type = "xpath" -> xpath_find(op, v, p)
      [] type = "id" -> id_find(v, p)
      [] type = "name" -> name_find(v, p)
      [] type = "class" -> class_find(v, p)

\* A lookup that answers ElementNotFoundError by returning nothing.
find_ReturnsNone(op, selector, p) ==
    LET ps == parse_selector(selector)
        h == handler_find(ps.type, op, ps.value, p)
    IN  IF ~ps.ok THEN NotQueried(selector)
        ELSE IF h.outcome = "ElementNotFoundError"
        THEN [h EXCEPT !.outcome = "returned", !.ret = "zero"]
        ELSE IF h.outcome = "PageError"
        THEN [h EXCEPT !.outcome = "SelectorError", !.carries = selector]
        ELSE h

\* SelectorEngine.find_element / find_elements: parse, dispatch, re-raise
\* the typed errors, wrap every other exception as SelectorError.
find(op, selector, p) ==
    LET ps == parse_selector(selector)
        h == handler_find(ps.type, op, ps.value, p)
    IN  IF ~ps.ok THEN NotQueried(selector)
        ELSE IF h.outcome = "returned" /\ h.ret # "found"
        THEN [h EXCEPT !.outcome = "ElementNotFoundError",
                       !.carries = selector]
        ELSE IF h.outcome = "PageError"
        THEN [h EXCEPT !.outcome = "SelectorError", !.carries = selector]
        ELSE h

\* The characters and the spellings the model's selectors are made of.
Alphabet == {"a", ":", "#", ".", "[", "]", "("}

InputPrefixes == {<<>>, P_css, P_xpath, P_id, P_name, P_class, P_attr, P_attrq}

\* A spelling followed by a body, and the quoted form [name="body"].
SelectorInputs ==
    {pre \o body : pre \in InputPrefixes, body \in SeqsUpTo(Alphabet, MaxBody)}
    \cup {P_attrq \o body \o <<"\"", "]">> : body \in SeqsUpTo(Alphabet, MaxBody)}

\* parse_selector(selector)
ParseSelector ==
    /\ sel.op = ""
    /\ LET ps == parse_selector(sel.selector)
       IN  sel' = [sel EXCEPT !.op = "parse",
                      !.outcome = IF ps.ok THEN "returned"
                                  ELSE "InvalidSelectorError",
                      !.type = IF ps.ok THEN ps.type ELSE "",
                      !.value = ps.value]
    /\ UNCHANGED <<adminFrame0, poolVars, extVars>>

FindCall(op) ==
    /\ sel.op = ""
    /\ \E p \in SelPageOutcomes :
        LET ps == parse_selector(sel.selector)
            r == find(op, sel.selector, p)
        IN  sel' = [page |-> p, outcome |-> r.outcome,
                    selector |-> sel.selector,
                    type |-> IF ps.ok THEN ps.type ELSE "",
                    value |-> ps.value, op |-> op, ret |-> r.ret,
                    queried |-> r.queried, query |-> r.query,
                    cause |-> r.cause, carries |-> r.carries]
    /\ UNCHANGED <<adminFrame0, poolVars, extVars>>

FindElement == FindCall("find_element")

FindElements == FindCall("find_elements")

InitSel ==
    /\ bm = NewManager
    /\ browser_type = "chromium"
    /\ last_request_time = NoTime
    /\ delay_config = DefaultDelayConfig
    /\ now = 0
    /\ anti_crawler_enabled = TRUE
    /\ min_delay = 1 /\ max_delay = 1
    /\ pc = "idle" /\ mode = "" /\ workflow = <<>> /\ idx = 0 /\ page = 0
    /\ action = NoAction /\ result = NoResult /\ results = <<>> /\ exc = ""
    /\ outcome = "" /\ log = <<>> /\ closeCalls = 0 /\ calls = 0
    /\ user_agents = DefaultAgents /\ proxies = <<>> /\ store = EmptyStore
    /\ acm = NoCall
    /\ ExtInit
    /\ \E selector \in SelectorInputs :
           sel = [NoSelCall EXCEPT !.selector = selector]

NextSel == ParseSelector \/ FindElement \/ FindElements

SpecSel == InitSel /\ [][NextSel]_vars

\* A handler called directly, as the handler tests do: the string drawn at
\* Init is the selector_value argument.
HandlerCall(type) ==
    /\ sel.op = ""
    /\ \E op \in {"find_element", "find_elements"} : \E p \in SelPageOutcomes :
        LET r == handler_find(type, op, sel.selector, p)
        IN  sel' = [page |-> p, outcome |-> r.outcome,
                    selector |-> sel.selector, type |-> type,
                    value |-> sel.selector, op |-> op, ret |-> r.ret,
                    queried |-> r.queried, query |-> r.query,
                    cause |-> r.cause, carries |-> r.carries]
    /\ UNCHANGED <<adminFrame0, poolVars, extVars>>

NameHandlerFind == HandlerCall("name")

ClassHandlerFind == HandlerCall("class")

NextHandler == NameHandlerFind \/ ClassHandlerFind

SpecHandler == InitSel /\ [][NextHandler]_vars

----------------------------------------------------------------------------
\* WorkflowEngine driven by one caller.

\* load_workflow(workflow_id)
LoadWorkflow ==
    /\ eng.op = ""
    /\ \E c \in Collaborators, found \in BOOLEAN, rows \in StepLists :
        LET w == load_workflow(c, found, rows)
        IN  eng' = [NoEngCall EXCEPT
                       !.op = "load_workflow", !.collaborator = c,
                       !.found = found, !.returned = rows,
                       !.loaded = w.loaded, !.steps = w.steps,
                       !.raised = w.exc # ""]
    /\ UNCHANGED <<adminFrame0, poolVars, selVars, rn, world, bx, wake, req>>

\* execute_workflow(workflow_id), lines 16-68: load, init, create_page, the
\* loop, and close() in the finally clause, whose exception replaces the
\* return value.  pageOk is what the page would answer to a primitive.
EngineExecuteWorkflow ==
    /\ eng.op = ""
    /\ \E c \in Collaborators, found \in BOOLEAN, rows \in StepLists,
          pageOk \in BOOLEAN, initOk \in BOOLEAN :
        LET w == load_workflow(c, found, rows)
            noWorkflow == w.exc # "" \/ ~w.loaded
            initFailed == ~noWorkflow /\ bm.browser = 0 /\ ~initOk
            b1 == IF noWorkflow THEN bm ELSE init(bm, initOk)
        IN  \E pageO \in PageOutcomes(b1) :
            LET paged == ~noWorkflow /\ ~initFailed
                b2 == IF paged THEN create_page(b1, pageO) ELSE b1
                ret == IF paged /\ pageO = "ok"
                       THEN Completed(run_steps(w.steps, 1))
                       ELSE Failed
            IN  \E closeO \in CloseOutcomes(b2) :
                /\ bm' = close(b2, closeO)
                /\ eng' = [results |-> ret.results, status |-> ret.status,
                           raised |-> closeO # "ok", steps |-> w.steps,
                           collaborator |-> c, found |-> found,
                           loaded |-> w.loaded, reported |-> ret.reported,
                           op |-> "execute_workflow", returned |-> rows,
                           pageOk |-> pageOk,
                           acquire |-> IF noWorkflow THEN "not_tried"
                                       ELSE IF initFailed THEN "init_failed"
                                       ELSE pageO,
                           release |-> closeO]
    /\ UNCHANGED <<cfgVars, gateVars, now, callVars, poolVars, selVars, rn,
                   world, bx, wake, req>>

NextEngine == LoadWorkflow \/ EngineExecuteWorkflow

SpecEngine == Init /\ [][NextEngine]_vars

----------------------------------------------------------------------------
\* BrowserManager.navigate called again and again by one caller, under a
\* policy set before the first call and left alone.

InitNavigate ==
    /\ bm = NewManager
    /\ browser_type = "chromium"
    /\ last_request_time = NoTime
    /\ PolicyInit
    /\ now = 0
    /\ anti_crawler_enabled = TRUE
    /\ min_delay = 1 /\ max_delay = 2
    /\ pc = "idle" /\ mode = "" /\ workflow = <<>> /\ idx = 0 /\ page = 0
    /\ action = NoAction /\ result = NoResult /\ results = <<>> /\ exc = ""
    /\ outcome = "" /\ log = <<>> /\ closeCalls = 0 /\ calls = 0
    /\ NoCalls

NextNavigate == StartNavigate \/ NavCheck \/ NavSleep \/ NavGoto \/ Tick

SpecNavigate == InitNavigate /\ [][NextNavigate]_vars

----------------------------------------------------------------------------
\* The calls of a sequential caller on its BrowserManager.  execute_action
\* without a page is launch(), create_context(), new_page(); __aenter__ is
\* launch(); __aexit__ and the finally clause of execute_workflow are
\* close().

bxFrame0 == <<cfgVars, gateVars, callVars, poolVars, selVars, eng, rn,
              world, wake, req>>

bxFrame == <<bxFrame0, now>>

\* The record of a call that took the manager to b1.
BxCalled(name, arg, raised, ret, e, issued, trace) ==
    [exc |-> e, arg |-> arg, raised |-> raised, op |-> name, ret |-> ret,
     trace |-> trace, before |-> bm, issued |-> issued,
     count |-> bx.count + 1]

\* init(), lines 76-85.
BmInit ==
    /\ bx.count < MaxOps
    /\ \E ok \in IF bm.browser = 0 THEN BOOLEAN ELSE {TRUE} :
        /\ bm' = init(bm, ok)
        /\ bx' = BxCalled("init", 0, ~ok, 0,
                          IF ok THEN "" ELSE "init_failed", {}, <<>>)
    /\ UNCHANGED bxFrame

\* launch(), lines 233-272; __aenter__ is this call.
BmLaunch ==
    /\ bx.count < MaxOps
    /\ \E ok \in LaunchOutcomes :
        /\ bm' = launch(bm, ok)
        /\ bx' = BxCalled("launch", 0, ~ok, 0,
                          IF ok THEN "" ELSE "launch_failed", {}, <<>>)
    /\ UNCHANGED bxFrame

\* create_context(), lines 87-125.
BmCreateContext ==
    /\ bx.count < MaxOps
    /\ \E o \in ContextOutcomes(bm) :
        /\ bm' = create_context(bm, o)
        /\ bx' = BxCalled("create_context", 0, o # "ok", 0,
                          IF o = "ok" THEN "" ELSE o, {}, <<>>)
    /\ UNCHANGED bxFrame

\* new_page(), lines 274-290.
BmNewPage ==
    /\ bx.count < MaxOps
    /\ \E o \in PageOutcomes(bm) :
        /\ bm' = new_page(bm, o)
        /\ bx' = BxCalled("new_page", 0, o # "ok", NewPageId(bm, o),
                          IF o = "ok" THEN "" ELSE o, {}, <<>>)
    /\ UNCHANGED bxFrame

\* close(), lines 163-174; __aexit__ is this call.
BmClose ==
    /\ bx.count < MaxOps
    /\ \E o \in CloseOutcomes(bm) :
        /\ bm' = close(bm, o)
        /\ bx' = BxCalled("close", 0, o # "ok", 0,
                          IF o = "ok" THEN "" ELSE o, close_calls(bm, o),
                          <<>>)
    /\ UNCHANGED bxFrame

\* new_page_with_retry(max_retries = n), lines 176-195; the clock moves on
\* by the sleeps between its attempts.
BmNewPageWithRetry ==
    /\ bx.count < MaxOps
    /\ \E n \in 0..MaxRetries :
        \E r \in new_page_with_retry(bm, n) :
            /\ AfterSleep(now, Slept(r.trace)) <= MaxTime
            /\ bm' = r.b
            /\ bx' = BxCalled("new_page_with_retry", n, r.raised, r.ret,
                              r.exc, {}, r.trace)
            /\ now' = AfterSleep(now, Slept(r.trace))
    /\ UNCHANGED bxFrame0

NextBrowser ==
    \/ BmInit \/ BmLaunch \/ BmCreateContext \/ BmNewPage \/ BmClose
    \/ BmNewPageWithRetry

SpecBrowser == Init /\ [][NextBrowser]_vars

----------------------------------------------------------------------------
\* Runs of execute_workflow (action_executor.py, lines 245-277) interleaved
\* at their awaits.  A step resumes a run from the await it is suspended in
\* and takes it to its next await: the object an awaited call is made on is
\* read from the manager when the call is made, and the manager's field is
\* assigned when the await completes.

runFrame == <<cfgVars, gateVars, now, callVars, poolVars, selVars, eng, bx,
              wake, req>>

\* close(), lines 163-174, up to its first await: context.close() of the
\* context the manager holds, else browser.close() of the browser it
\* holds, else it returns at once.
EnterClose(run, b) ==
    IF b.context # 0
    THEN [run EXCEPT !.pc = "close_context", !.recv = b.context]
    ELSE IF b.browser # 0
    THEN [run EXCEPT !.pc = "close_browser", !.recv = b.browser]
    ELSE [run EXCEPT !.pc = "returned", !.recv = 0]

\* execute_action(action, page), lines 133-138, is called and suspends: in
\* the asyncio.sleep of random_delay with the anti-crawler enabled, else in
\* its page primitive.
EnterAction(run) ==
    [run EXCEPT !.pc = IF anti_crawler_enabled THEN "gate" ELSE "step"]

\* Lines 267-277: an exception of the acquisition is turned into an error
\* result, and the finally clause calls close().
Aborted(run, b) ==
    EnterClose([run EXCEPT !.statuses = Append(@, "error")], b)

\* execute_workflow(workflow) is called with a list of n descriptors and
\* suspends in launch(), line 241: await async_playwright().start().
RunStart(r) ==
    /\ rn[r].pc = "idle"
    /\ \E n \in 0..MaxLen :
        rn' = [rn EXCEPT ![r].pc = "playwright", ![r].left = n]
    /\ UNCHANGED <<runFrame, bmVars, world>>

\* Playwright has started (or not): launch(), lines 241-259, goes on to
\* await the launch of the browser.
RunPlaywright(r) ==
    /\ rn[r].pc = "playwright"
    /\ \E ok \in LaunchOutcomes :
        rn' = [rn EXCEPT ![r] = IF ok THEN [@ EXCEPT !.pc = "launch"]
                                ELSE Aborted(@, bm)]
    /\ UNCHANGED <<runFrame, bmVars, world>>

\* The browser is launched and assigned to self.browser (line 259);
\* create_context() calls new_context() on it (line 119) before anything
\* else runs.
RunLaunch(r) ==
    /\ rn[r].pc = "launch"
    /\ \E ok \in BOOLEAN :
        LET b1 == launch(bm, ok)
        IN  /\ bm' = b1
            /\ rn' = [rn EXCEPT ![r] =
                         IF ok
                         THEN [@ EXCEPT !.pc = "context",
                                        !.browser = b1.browser,
                                        !.recv = b1.browser]
                         ELSE Aborted(@, b1)]
    /\ UNCHANGED <<runFrame, world>>

\* new_context() returns and self.context is assigned (line 119);
\* new_page(), lines 281-284, calls new_page() on it before anything else
\* runs.  A closed browser
\* makes no context.
RunContext(r) ==
    /\ rn[r].pc = "context"
    /\ \E ok \in IF rn[r].recv \in world.closed THEN {FALSE} ELSE BOOLEAN :
        LET c == bm.nextId
            b1 == IF ok
                  THEN [bm EXCEPT !.context = c, !.nextId = c + 1]
                  ELSE bm
        IN  /\ bm' = b1
            /\ world' = IF ok THEN Created(world, c, rn[r].recv) ELSE world
            /\ rn' = [rn EXCEPT ![r] =
                         IF ok
                         THEN [@ EXCEPT !.pc = "page", !.context = c,
                                        !.ctxIn = rn[r].recv, !.recv = c]
                         ELSE Aborted(@, b1)]
    /\ UNCHANGED runFrame

\* new_page() returns the page (lines 284-290); the loop of lines 259-265
\* calls execute_action with it, or, with no descriptor, the finally
\* clause calls close().  A closed context makes no page.
RunPage(r) ==
    /\ rn[r].pc = "page"
    /\ \E ok \in IF Alive(world, rn[r].recv) THEN BOOLEAN ELSE {FALSE} :
        LET b1 == IF ok THEN [bm EXCEPT !.nextId = @ + 1] ELSE bm
        IN  /\ bm' = b1
            /\ rn' = [rn EXCEPT ![r] =
                         IF ok
                         THEN LET got == [@ EXCEPT !.page = bm.nextId,
                                                   !.pageIn = rn[r].recv,
                                                   !.recv = bm.nextId]
                              IN  IF got.left = 0 THEN EnterClose(got, b1)
                                  ELSE EnterAction(got)
                         ELSE Aborted(@, b1)]
    /\ UNCHANGED <<runFrame, world>>

\* The sleep of random_delay ends (line 90) and execute_action goes on to
\* its page primitive (line 168).
RunGate(r) ==
    /\ rn[r].pc = "gate"
    /\ rn' = [rn EXCEPT ![r].pc = "step"]
    /\ UNCHANGED <<runFrame, bmVars, world>>

\* Lines 259-265: the page primitive ends and execute_action(action, page)
\* returns; a primitive on a page that was closed fails, an error result
\* or the end of the list leads to close(), and otherwise execute_action
\* is called with the next descriptor.
RunStep(r) ==
    /\ rn[r].pc = "step"
    /\ \E opOk \in IF Alive(world, rn[r].pageIn) THEN BOOLEAN ELSE {FALSE} :
        rn' = [rn EXCEPT ![r] =
                  LET done == [@ EXCEPT
                                  !.left = @ - 1,
                                  !.statuses =
                                      Append(@, IF opOk THEN "success"
                                                ELSE "error")]
                  IN  IF opOk /\ done.left > 0 THEN EnterAction(done)
                      ELSE EnterClose(done, bm)]
    /\ UNCHANGED <<runFrame, bmVars, world>>

\* close_context(), lines 159-161: context.close() returns and
\* self.context is set to None; close() goes on to the browser the
\* manager holds now.  An exception leaves execute_workflow.
RunCloseContext(r) ==
    /\ rn[r].pc = "close_context"
    /\ \E ok \in BOOLEAN :
        LET b1 == IF ok THEN [bm EXCEPT !.context = 0] ELSE bm
        IN  /\ bm' = b1
            /\ world' = IF ok THEN Closed(world, rn[r].recv) ELSE world
            /\ rn' = [rn EXCEPT ![r] =
                         IF ok THEN EnterClose(@, b1)
                         ELSE [@ EXCEPT !.pc = "raised", !.recv = 0]]
    /\ UNCHANGED runFrame

\* close(), lines 169-171: browser.close() returns and self.browser is set
\* to None.
RunCloseBrowser(r) ==
    /\ rn[r].pc = "close_browser"
    /\ \E ok \in BOOLEAN :
        /\ bm' = IF ok
                 THEN [bm EXCEPT !.browser = 0,
                                 !.open = @ \ {rn[r].recv}]
                 ELSE bm
        /\ world' = IF ok THEN Closed(world, rn[r].recv) ELSE world
        /\ rn' = [rn EXCEPT ![r].pc = IF ok THEN "returned" ELSE "raised",
                            ![r].recv = 0]
    /\ UNCHANGED runFrame

NextRuns ==
    \E r \in Runs :
        \/ RunStart(r) \/ RunPlaywright(r) \/ RunLaunch(r) \/ RunContext(r)
        \/ RunPage(r) \/ RunGate(r) \/ RunStep(r) \/ RunCloseContext(r)
        \/ RunCloseBrowser(r)

SpecRuns == Init /\ [][NextRuns]_vars

----------------------------------------------------------------------------
\* Properties of execute_workflow and execute_action, checked under Spec.

Kinds(k) == {p \in DOMAIN log : log[p].kind = k}

Has(k) == Kinds(k) # {}

Finished == pc = "idle" /\ outcome \in {"returned", "raised"}

\* Events of one execute_action call: everything from the gate on.
ActionEventKinds ==
    {"sleep", "parse", "page_op", "page_op_failed", "launch", "new_context",
     "new_page", "set_headers"}

\* C1: fail-fast.  In a run of execute_workflow, once an error result has
\* been recorded nothing follows it but the release: no later descriptor is
\* passed to execute_action, no delay, selector parse or page operation is
\* issued, and the loop index stays at the failing descriptor.
C1_FailFast ==
    mode = "workflow" =>
        /\ \A p \in DOMAIN log : \A q \in DOMAIN log :
               (p < q /\ log[p].kind = "error") => log[q].kind = "close"
        /\ (Has("error") => /\ pc \in {"wf_finally", "idle"}
                            /\ idx <= Len(results)
                            /\ results[Len(results)].status = "error")

\* A two-descriptor run whose first action failed on the page and whose
\* second descriptor was therefore never executed.
C1_Witness ==
    /\ mode = "workflow" /\ Finished
    /\ Len(workflow) = 2 /\ Len(results) = 1 /\ idx = 1
    /\ results[1] = Error("page primitive failed")
    /\ Has("page_op_failed")

\* C2: every run of execute_workflow calls BrowserManager.close exactly
\* once: never before the loop is left, exactly once when the run has ended
\* (by returning or by raising), never twice; a close that returns leaves
\* no browser and no context in the manager.
C2_ReleasedOnce ==
    mode = "workflow" =>
        /\ closeCalls = Cardinality(Kinds("close"))
        /\ closeCalls <= 1
        /\ (Finished <=> closeCalls = 1)
        /\ (outcome = "returned" => bm.browser = 0 /\ bm.context = 0)

\* A run ended by an exception inside the loop (a descriptor that is no
\* dict), released once.
C2_Witness ==
    /\ mode = "workflow" /\ Finished /\ page # 0
    /\ Len(workflow) = 2 /\ Len(results) = 2
    /\ results[2] = Error("AttributeError")
    /\ closeCalls = 1

\* The results a descriptor can produce.
PossibleResults(a) ==
    IF a.isdict THEN {ActionTry(a, ok) : ok \in BOOLEAN}
    ELSE {Error("AttributeError")}

\* C3: a run that acquired its page and returns gives one result per
\* executed descriptor, in order: result i is an outcome of descriptor i,
\* every result but the last is a success, and the list is shorter than
\* the workflow only when its last result is an error.
C3_ResultsUpToFirstFailure ==
    (mode = "workflow" /\ outcome = "returned" /\ page # 0) =>
        /\ Len(results) <= Len(workflow)
        /\ \A i \in 1..Len(results) : results[i] \in PossibleResults(workflow[i])
        /\ \A i \in 1..(Len(results) - 1) : results[i].status = "success"
        /\ (Len(results) < Len(workflow)
                => /\ Len(results) > 0
                   /\ results[Len(results)].status = "error")
        /\ (\A i \in 1..Len(results) : results[i].status = "success")
                => Len(results) = Len(workflow)

\* [a1, a2] with a2 failing: two results, success then error.
C3_Witness ==
    /\ mode = "workflow" /\ outcome = "returned" /\ page # 0
    /\ Len(workflow) = 2 /\ Len(results) = 2
    /\ results[1].status = "success" /\ results[2].status = "error"

\* C4 (as claimed): execute_workflow never raises; a run that has ended has
\* returned its list, and a failed acquisition shows as exactly one
\* synthetic error result.
C4_NeverRaises ==
    (mode = "workflow" /\ pc = "idle") =>
        /\ outcome = "returned"
        /\ (page = 0 => Len(results) = 1 /\ results[1].status = "error")

C6_NeverPropagates ==
    (mode = "action" /\ action.isdict) =>
        /\ outcome # "raised"
        /\ (Finished => result.status \in {"success", "error"})

\* The verb table of the specification.
TableVerbs ==
    {"goto", "click", "input", "select", "radio", "checkbox", "wait",
     "extract_text", "extract_html", "extract_attribute", "extract_url",
     "extract_multiple"}

\* C7: every verb of the table is dispatched: with a selector
\* that parses and no failing page primitive the result is a success, and
\* the unknown-verb error is produced only for verbs outside the table.
C7_TableDispatched ==
    (mode = "action" /\ action.isdict /\ outcome = "returned") =>
        /\ (action.type \in TableVerbs /\ SelectorParses(action)
                /\ ~Has("page_op_failed")) => result.status = "success"
        /\ result.message = "unsupported action type"
                => action.type \notin TableVerbs

\* C8: with gating enabled every execute_action call, the first of a run
\* included, has finished its delay before its selector is parsed and
\* before any of its page or browser operations is issued; with gating
\* disabled execute_action never sleeps.
C8_GateFirst ==
    mode \in {"workflow", "action"} =>
        IF anti_crawler_enabled
        THEN /\ \A q \in DOMAIN log :
                   (log[q].kind \in ActionEventKinds \ {"sleep"} /\ log[q].i >= 1)
                       => \E p \in 1..(q - 1) :
                              log[p].kind = "sleep" /\ log[p].i = log[q].i
             /\ pc \in {"ea_launch", "ea_context", "ea_page", "ea_headers",
                        "ea_try", "ea_return"}
                    => \E p \in DOMAIN log : log[p].kind = "sleep" /\ log[p].i = idx
        ELSE ~Has("sleep")

\* The first action of a run slept, then issued its page operation.
C8_Witness ==
    /\ mode = "workflow" /\ anti_crawler_enabled
    /\ \E p \in DOMAIN log : \E q \in DOMAIN log :
           /\ p < q
           /\ log[p].kind = "sleep" /\ log[p].i = 1
           /\ log[q].kind = "page_op" /\ log[q].i = 1
           /\ log[q].t >= log[p].t /\ log[p].t >= 1

----------------------------------------------------------------------------
\* Properties of the gates, checked under SpecGate.

GateOps == {"goto", "continue", "page_op"}

\* A handler call began, went to sleep, or went on to request.continue_().
HandlerBegan == InProgress(req') > InProgress(req)

HandlerSuspended == Len(req'.sleeping) > Len(req.sleeping)

HandlerProceeded == req'.continuing > req.continuing

\* The gate of the request handler sleeps exactly when should_delay()
\* returned true, and the request time is the current time when
\* request.continue_() is issued.
HandlerGateRecords ==
    /\ HandlerSuspended =>
           should_delay(last_request_time, delay_config, now)
    /\ (HandlerBegan /\ ~HandlerSuspended) =>
           ~should_delay(last_request_time, delay_config, now)
    /\ HandlerProceeded => last_request_time' = now'

\* Every gate of the caller, that of execute_action included, sleeps only
\* after should_delay() returned true and has recorded the request time
\* when the gated operation starts.
EveryCallerGateRecords ==
    (mode = "navigate" \/ (mode = "action" /\ anti_crawler_enabled)) =>
        /\ \A q \in Kinds("sleep") :
               \E p \in 1..(q - 1) : log[p].kind = "should_delay" /\ log[p].i = 1
        /\ \A q \in DOMAIN log :
               log[q].kind \in GateOps
                   => \E p \in 1..(q - 1) :
                          /\ log[p].kind = "timestamp"
                          /\ last_request_time >= log[p].t

\* C9: every gate, that of navigate, of the request handler
\* and of execute_action, sleeps only after should_delay() returned true
\* and records the request time before the gated operation starts.
C9_EveryGateRecords ==
    []EveryCallerGateRecords /\ [][HandlerGateRecords]_vars

\* should_delay() as navigate consulted it, in the call in progress.
NavigateShouldDelay ==
    (mode = "navigate" /\ pc # "idle") =>
        \A p \in Kinds("should_delay") :
            (log[p].i = 1)
                <=> (/\ log[1].i # NoTime
                     /\ log[p].t - log[1].i < delay_config.min_delay)

\* should_delay() as a handler call consulted it when it began.
HandlerShouldDelay ==
    HandlerBegan =>
        (HandlerSuspended
            <=> (/\ last_request_time # NoTime
                 /\ now - last_request_time < delay_config.min_delay))

\* C10: should_delay() is false when no request time has been recorded;
\* otherwise it is true exactly when the time elapsed since the recorded
\* request time is strictly less than min_delay.  Nothing else (max_delay,
\* random_delay) enters.
C10_ShouldDelay == []NavigateShouldDelay /\ [][HandlerShouldDelay]_vars

\* should_delay() returned false at elapsed = min_delay, under a policy
\* whose max_delay is larger.
C10_Witness ==
    /\ mode = "navigate" /\ pc # "idle" /\ Has("should_delay")
    /\ \A p \in Kinds("should_delay") :
           /\ log[p].i = 0
           /\ log[1].i # NoTime
           /\ log[p].t - log[1].i = delay_config.min_delay
    /\ delay_config.min_delay > 0
    /\ delay_config.max_delay > delay_config.min_delay

----------------------------------------------------------------------------
\* Properties of the delay policy, checked under SpecDelay.

SmallerOf(a, b) == IF a <= b THEN a ELSE b

LargerOf(a, b) == IF a <= b THEN b ELSE a

\* C11 (as claimed): whatever policy was installed, get_delay_time returns
\* min_delay when random_delay is off and a d with min_delay <= d <=
\* max_delay when it is on.
C11_DelayWithinMinMax ==
    acm.op = "get_delay_time" =>
        IF delay_config.random_delay
        THEN /\ delay_config.min_delay <= acm.ret
             /\ acm.ret <= delay_config.max_delay
        ELSE acm.ret = delay_config.min_delay

\* C11 (amended): get_delay_time returns min_delay when random_delay is
\* off; when it is on it returns a d between min_delay and max_delay in
\* whichever order they were installed, so for min_delay > max_delay the
\* delay lies in [max_delay, min_delay].
C11_DelayBetweenBounds ==
    acm.op = "get_delay_time" =>
        IF delay_config.random_delay
        THEN /\ SmallerOf(delay_config.min_delay, delay_config.max_delay)
                    <= acm.ret
             /\ acm.ret
                    <= LargerOf(delay_config.min_delay, delay_config.max_delay)
        ELSE acm.ret = delay_config.min_delay

\* A policy with min_delay > max_delay was installed and saved, and
\* get_delay_time returned a delay below min_delay.
C11_Witness ==
    /\ acm.op = "get_delay_time"
    /\ store.delay_config.st = "written"
    /\ store.delay_config.content = delay_config
    /\ delay_config.random_delay
    /\ delay_config.min_delay > delay_config.max_delay
    /\ acm.ret < delay_config.min_delay

----------------------------------------------------------------------------
\* Properties of the pools, checked under SpecPool.

UserAgentMutations == {"add_user_agent", "remove_user_agent", "save_user_agents"}

ProxyMutations == {"add_proxy", "remove_proxy", "save_proxies"}

\* C12 (as claimed): every mutation applies its change in memory before it
\* persists: after a mutation whose persistence failed (the failure was
\* raised to the caller) the in-memory state holds the new value.
C12_MemoryFirst ==
    acm.raised =>
        /\ acm.op \in UserAgentMutations => user_agents = acm.intended
        /\ acm.op \in ProxyMutations => proxies = acm.intended
        /\ acm.op = "update_delay_config" => delay_config = acm.intended

\* C13 (as claimed): the user-agent pool is never empty, and
\* get_random_user_agent never fails.
C13_PoolNonEmpty ==
    /\ Len(user_agents) > 0
    /\ acm.op = "get_random_user_agent" => ~acm.raised

----------------------------------------------------------------------------
\* Properties of the SelectorEngine, checked under SpecSel.

FindOps == {"find_element", "find_elements"}

SelectorTypes == {"css", "xpath", "id", "name", "class"}

RecognizedPrefixes == {P_css, P_xpath, P_id, P_name, P_class}

HasRecognizedPrefix(s) == \E pre \in RecognizedPrefixes : StartsWith(s, pre)

\* The full shorthand [name="..."].
FullNameForm(s) ==
    /\ Len(s) >= 9
    /\ StartsWith(s, P_attrq)
    /\ EndsWith(s, <<"\"", "]">>)

\* '[' and ']' properly nested.
ProperlyNested(v) ==
    /\ \A k \in 0..Len(v) :
           Count(SubSeq(v, 1, k), "]") <= Count(SubSeq(v, 1, k), "[")
    /\ Count(v, "]") = Count(v, "[")

\* C14: whatever the selector type, a lookup whose page query matched
\* nothing (None or an empty list) raises ElementNotFoundError, and a
\* lookup that returns has a match to return, never None or an empty list.
C14_ZeroIsNotFound ==
    sel.op \in FindOps =>
        /\ (sel.queried /\ sel.page = "zero")
               => sel.outcome = "ElementNotFoundError"
        /\ sel.outcome = "returned"
               => (sel.ret = "found" /\ sel.page = "found" /\ sel.queried)

\* find_elements on an xpath selector whose query matched nothing.
C14_Witness ==
    /\ sel.op = "find_elements" /\ sel.type = "xpath"
    /\ sel.queried /\ sel.page = "zero"
    /\ sel.outcome = "ElementNotFoundError"

\* C15 (as claimed): whatever the selector type, an exception of the page
\* capability reaches the caller as a SelectorError chained to the cause
\* and carrying the selector string, never as ElementNotFoundError.
C15_PageErrorIsSelectorError ==
    (sel.op \in FindOps /\ sel.queried /\ sel.page = "raises") =>
        /\ sel.outcome = "SelectorError"
        /\ sel.cause = "PageError"
        /\ sel.carries = sel.selector

\* C16 (as claimed): a string without a recognized prefix that is no
\* shorthand ([name="..."], leading '#', leading '.') and contains ':' is
\* rejected with InvalidSelectorError, by parse and by both lookups, and
\* the page is not queried.
C16_ColonRejected ==
    (/\ sel.op # ""
     /\ ~HasRecognizedPrefix(sel.selector)
     /\ ~FullNameForm(sel.selector)
     /\ ~StartsWith(sel.selector, <<"#">>)
     /\ ~StartsWith(sel.selector, <<".">>)
     /\ Contains(sel.selector, ":"))
        => (sel.outcome = "InvalidSelectorError" /\ ~sel.queried)

Identifiers == {x \in SeqsUpTo({"a"}, MaxBody) : x # <<>>}

\* The two spellings of an id, class and name selector for identifier x.
Spellings(x) ==
    {[type |-> "id", short |-> <<"#">> \o x, long |-> P_id \o x,
      marked |-> <<"#">> \o x],
     [type |-> "class", short |-> <<".">> \o x, long |-> P_class \o x,
      marked |-> <<".">> \o x],
     [type |-> "name", short |-> P_attrq \o x \o <<"\"", "]">>,
      long |-> P_name \o x, marked |-> P_attrq \o x \o <<"\"", "]">>]}

\* C17: parse("#x") and parse("id:x") yield the same value and
\* that value is "#x"; likewise ".x" for class:x and .x, and [name="x"] for
\* name:x and [name="x"].
C17_SameMarkedValue ==
    sel.op = "parse" =>
        \A x \in Identifiers : \A sp \in Spellings(x) :
            sel.selector \in {sp.short, sp.long} =>
                /\ sel.outcome = "returned" /\ sel.value = sp.marked
                /\ AE_parse_selector(sel.selector).ok
                /\ AE_parse_selector(sel.selector).value = sp.marked

\* C18 (as claimed): whatever parse returns has one of the five types and a
\* non-empty value.
C18_ValueNonEmpty ==
    (sel.op = "parse" /\ sel.outcome = "returned") =>
        (sel.type \in SelectorTypes /\ sel.value # <<>>)

\* C19 (as claimed): without a recognized prefix the first matching
\* shorthand decides, [name="..."] before '#' before '.', also when the
\* string contains ':', and only the full [name="..."] form is a name.
C19_ShorthandOrder ==
    (sel.op = "parse" /\ ~HasRecognizedPrefix(sel.selector)) =>
        /\ FullNameForm(sel.selector)
               => (sel.outcome = "returned" /\ sel.type = "name")
        /\ (~FullNameForm(sel.selector) /\ StartsWith(sel.selector, <<"#">>))
               => (sel.outcome = "returned" /\ sel.type = "id")
        /\ (~FullNameForm(sel.selector) /\ StartsWith(sel.selector, <<".">>))
               => (sel.outcome = "returned" /\ sel.type = "class")
        /\ (sel.outcome = "returned" /\ sel.type = "name")
               => FullNameForm(sel.selector)

\* C20 (as claimed): a css: value is accepted exactly when it contains one
\* of # . [ ] : > and its brackets are properly nested; an xpath: value
\* exactly when it starts with // or (, contains one of @ = [ ] and its
\* brackets are properly nested.
C20_PrefixedValidation ==
    sel.op = "parse" =>
        /\ StartsWith(sel.selector, P_css) =>
               LET v == SubSeq(sel.selector, 5, Len(sel.selector))
               IN  (sel.outcome = "returned") <=>
                       /\ ContainsAny(v, {"#", ".", "[", "]", ":", ">"})
                       /\ ProperlyNested(v)
        /\ StartsWith(sel.selector, P_xpath) =>
               LET v == SubSeq(sel.selector, 7, Len(sel.selector))
               IN  (sel.outcome = "returned") <=>
                       /\ StartsWith(v, <<"/", "/">>) \/ StartsWith(v, <<"(">>)
                       /\ ContainsAny(v, {"@", "=", "[", "]"})
                       /\ ProperlyNested(v)

\* a occurs in b as a contiguous piece.
IsInfix(a, b) ==
    \E k \in 0..(Len(b) - Len(a)) : SubSeq(b, k + 1, k + Len(a)) = a

\* C21 (as claimed): when a lookup through the engine finds no element, the
\* message of the ElementNotFoundError that reaches the caller contains the
\* selector string exactly as the caller passed it.
C21_MessageHasSelector ==
    (sel.op \in FindOps /\ sel.outcome = "ElementNotFoundError") =>
        IsInfix(sel.selector, ElementNotFoundError_message(sel.carries))

----------------------------------------------------------------------------
\* Properties of the selector handlers called directly, checked under
\* SpecHandler.

Wrapped(v) == P_attrq \o v \o <<"\"", "]">>

\* The values v of which s is one of the spellings v, name:v, [name="v"].
NameValuesOf(s) ==
    {s} \cup (IF StartsWith(s, P_name) THEN {From(s, 5)} ELSE {})
        \cup (IF FullNameForm(s) THEN {SubSeq(s, 8, Len(s) - 2)} ELSE {})

\* The values v of which s is one of the spellings v, class:v, .v
ClassValuesOf(s) ==
    {s} \cup (IF StartsWith(s, P_class) THEN {From(s, 6)} ELSE {})
        \cup (IF StartsWith(s, <<".">>) THEN {From(s, 1)} ELSE {})

\* C22 (as claimed): for every non-empty value v the name handler queries
\* [name="v"] for each of the inputs v, name:v and [name="v"], and the class
\* handler queries .v for each of v, class:v and .v
C22_CanonicalForEveryValue ==
    (sel.op \in FindOps /\ sel.queried) =>
        /\ sel.type = "name" =>
               \A v \in NameValuesOf(sel.selector) :
                   (v # <<>> /\ sel.selector \in {v, P_name \o v, Wrapped(v)})
                       => sel.query = Wrapped(v)
        /\ sel.type = "class" =>
               \A v \in ClassValuesOf(sel.selector) :
                   (v # <<>> /\ sel.selector \in {v, P_class \o v, <<".">> \o v})
                       => sel.query = <<".">> \o v

\* A value that is not itself one of the handler's marked spellings.
PlainName(v) == v # <<>> /\ ~StartsWith(v, P_attrq) /\ ~StartsWith(v, P_name)

PlainClass(v) == v # <<>> /\ ~StartsWith(v, <<".">>) /\ ~StartsWith(v, P_class)

\* C22 (amended): the queries are [name="v"] and .v for every non-empty v
\* that does not itself start with one of the handler's spellings
\* ([name=" or name:, . or class:), and an input that already starts with
\* [name=" (name handler) or . (class handler) is queried as it is.
C22_CanonicalForPlainValues ==
    (sel.op \in FindOps /\ sel.queried) =>
        /\ sel.type = "name" =>
               /\ \A v \in NameValuesOf(sel.selector) :
                      (PlainName(v)
                       /\ sel.selector \in {v, P_name \o v, Wrapped(v)})
                          => sel.query = Wrapped(v)
               /\ StartsWith(sel.selector, P_attrq)
                      => sel.query = sel.selector
        /\ sel.type = "class" =>
               /\ \A v \in ClassValuesOf(sel.selector) :
                      (PlainClass(v)
                       /\ sel.selector \in {v, P_class \o v, <<".">> \o v})
                          => sel.query = <<".">> \o v
               /\ StartsWith(sel.selector, <<".">>)
                      => sel.query = sel.selector

\* The name handler was handed [name="a"] and queried exactly that.
C22_Witness ==
    /\ sel.op = "find_element" /\ sel.type = "name"
    /\ sel.selector = Wrapped(<<"a">>)
    /\ sel.queried /\ sel.query = Wrapped(<<"a">>)

----------------------------------------------------------------------------
\* Properties of the WorkflowEngine, checked under SpecEngine.

\* C23: the step list load_workflow produces is in nondecreasing
\* step_order, steps of equal step_order keep the order in which the
\* collaborator returned them (the id of a row is its place in the returned
\* list), every returned row occurs in it exactly once and nothing else
\* does, and the steps execute_workflow attempts are the first steps of
\* that list, in its order.
C23_SortedStable ==
    eng.loaded =>
        /\ \A i \in 1..Len(eng.steps) : \A j \in (i + 1)..Len(eng.steps) :
               /\ eng.steps[i].step_order <= eng.steps[j].step_order
               /\ eng.steps[i].step_order = eng.steps[j].step_order
                      => eng.steps[i].id < eng.steps[j].id
        /\ Len(eng.steps) = Len(eng.returned)
        /\ \A k \in 1..Len(eng.returned) :
               Cardinality({i \in 1..Len(eng.steps) :
                               eng.steps[i] = eng.returned[k]}) = 1
        /\ Len(eng.results) <= Len(eng.steps)
        /\ \A k \in 1..Len(eng.results) :
               eng.results[k].step_id = eng.steps[k].id

\* Rows returned with step_order 2, 1, 1 were loaded as rows 2, 3, 1 and
\* the run attempted row 2 first.
C23_Witness ==
    /\ eng.op = "execute_workflow" /\ eng.loaded
    /\ Len(eng.returned) = 3
    /\ [i \in 1..3 |-> eng.returned[i].step_order] = <<2, 1, 1>>
    /\ [i \in 1..3 |-> eng.steps[i].id] = <<2, 3, 1>>
    /\ Len(eng.results) = 1 /\ eng.results[1].step_id = 2

\* The statuses ActionExecutor.execute_workflow records for the steps from
\* the i-th on, on a page whose primitives end as pageOk says: one per
\* descriptor, up to and including the first error.
RECURSIVE ExecutorRun(_, _, _)
ExecutorRun(steps, i, pageOk) ==
    IF i > Len(steps) THEN <<>>
    ELSE LET r == ActionTry(Descriptor(steps[i].type, S_none), pageOk)
         IN  IF r.status = "error" THEN <<"error">>
             ELSE <<r.status>> \o ExecutorRun(steps, i + 1, pageOk)

\* The statuses of ActionExecutor.execute_workflow for a step list: the
\* one synthetic error when the page cannot be acquired.
ExecutorStatuses(steps, acquired, pageOk) ==
    IF acquired THEN ExecutorRun(steps, 1, pageOk) ELSE <<"error">>

\* C24 (as claimed): for every stored workflow, the per-step statuses the
\* engine reports are the statuses ActionExecutor.execute_workflow records
\* for the same sorted step list in the same environment.
C24_PureAdapter ==
    (eng.op = "execute_workflow" /\ eng.loaded /\ ~eng.raised) =>
        [k \in 1..Len(eng.results) |-> eng.results[k].status]
            = ExecutorStatuses(eng.steps, eng.acquire = "ok", eng.pageOk)

----------------------------------------------------------------------------
\* Properties of concurrent runs, checked under SpecRuns.

\* C25 (as claimed): a run that holds a page uses a session it acquired
\* itself (its page is of the context it created, in the browser it
\* launched), no other run holding a page shares that context or browser,
\* and nothing of it was closed by the release of another run.
C25_RunsIsolated ==
    \A r \in Runs :
        rn[r].pc \in {"gate", "step"} =>
            /\ rn[r].pageIn = rn[r].context
            /\ BrowserOf(world, rn[r].pageIn) = rn[r].browser
            /\ \A q \in Runs \ {r} :
                   rn[q].pc \in {"gate", "step"} =>
                       /\ rn[q].page # rn[r].page
                       /\ rn[q].pageIn # rn[r].pageIn
                       /\ BrowserOf(world, rn[q].pageIn)
                              # BrowserOf(world, rn[r].pageIn)
            /\ Alive(world, rn[r].pageIn)

----------------------------------------------------------------------------
\* Properties of the user-agent pool, checked under SpecPool.

\* After add_user_agent(u) returns u is in the pool, and adding a u that
\* was present leaves the pool as it was; after remove_user_agent(u)
\* returns u is not in the pool.
AfterAddRemove ==
    /\ (acm.op = "add_user_agent" /\ ~acm.raised) =>
           /\ Contains(user_agents, acm.arg)
           /\ Contains(acm.before, acm.arg) => user_agents = acm.before
    /\ (acm.op = "remove_user_agent" /\ ~acm.raised) =>
           ~Contains(user_agents, acm.arg)

\* remove_user_agent(u) right after add_user_agent(u) added a fresh u
\* leaves the pool as it was before the two calls.
AddThenRemove ==
    (/\ acm.op = "add_user_agent" /\ ~acm.raised /\ acm.changed
     /\ acm'.op = "remove_user_agent" /\ ~acm'.raised
     /\ acm'.arg = acm.arg)
        => user_agents' = acm.before

\* C26 (as claimed): for every pool reachable through construction,
\* add_user_agent, remove_user_agent and save_user_agents, the pool after
\* add and after remove is as above, and add followed by remove restores
\* the pool.
C26_AddRemove == []AfterAddRemove /\ [][AddThenRemove]_vars

----------------------------------------------------------------------------
\* C27: no browser is leaked.  A manager never holds more than one
\* started, unclosed browser, and once close() has returned every browser
\* started so far has been closed.
C27_NoBrowserLeaked ==
    /\ Cardinality(bm.open) <= 1
    /\ (bx.op = "close" /\ ~bx.raised) => bm.open = {}

----------------------------------------------------------------------------
\* C28: under a policy with min_delay <= max_delay that stays as it is, a
\* request time recorded by navigate is at least min_delay later than the
\* request time recorded before it.
C28_TimestampsMinDelayApart ==
    (/\ mode = "navigate"
     /\ delay_config.min_delay <= delay_config.max_delay
     /\ log # <<>> /\ log[1].i # NoTime) =>
        \A p \in Kinds("timestamp") :
            log[p].t - log[1].i >= delay_config.min_delay

\* A navigation that started within min_delay of the one before it slept
\* and then recorded its request time.
C28_Witness ==
    /\ mode = "navigate"
    /\ 0 < delay_config.min_delay
    /\ delay_config.min_delay <= delay_config.max_delay
    /\ log # <<>> /\ log[1].i # NoTime
    /\ log[1].t - log[1].i < delay_config.min_delay
    /\ Has("sleep") /\ Has("timestamp")

----------------------------------------------------------------------------
\* C29: close() is idempotent.  After close() has returned, browser and
\* context are both None; a close() of a manager in that state returns,
\* issues no close call on a context or a browser, and leaves the state as
\* it is.
C29_CloseIdempotent ==
    bx.op = "close" =>
        /\ ~bx.raised => (bm.browser = 0 /\ bm.context = 0)
        /\ (bx.before.browser = 0 /\ bx.before.context = 0) =>
               (~bx.raised /\ bx.issued = {} /\ bm = bx.before)

\* A second close() that followed a close() which had a context and a
\* browser to close.
C29_Witness ==
    /\ bx.op = "close" /\ ~bx.raised
    /\ bx.before.browser = 0 /\ bx.before.context = 0
    /\ bx.before.nextId > 2 /\ bx.before.open = {}
    /\ bx.issued = {}

----------------------------------------------------------------------------
\* The page-creation attempts a call of new_page_with_retry made.
Attempts(trace) ==
    {i \in DOMAIN trace : trace[i] \in {"page", "failed"}}

\* C30: new_page_with_retry(max_retries = n) returns a created page or
\* raises.  It makes at most n attempts, returns the page of the first
\* attempt that succeeds, calls close_context() between a failed attempt
\* and the next, raises the failure of the n-th attempt when all n fail,
\* raises when there is no browser and n <= 0, and never returns without a
\* page.
C30_PageOrRaise ==
    bx.op = "new_page_with_retry" =>
        /\ Cardinality(Attempts(bx.trace)) <= bx.arg
        /\ ~bx.raised =>
               /\ bx.ret # 0
               /\ bx.trace # <<>>
               /\ \A i \in Attempts(bx.trace) :
                      bx.trace[i] = "page" <=> i = Len(bx.trace)
        /\ \A i \in Attempts(bx.trace), j \in Attempts(bx.trace) :
               (i < j /\ bx.trace[i] = "failed") =>
                   \E c \in (i + 1)..(j - 1) : bx.trace[c] = "close_context"
        /\ (/\ bx.arg > 0
            /\ Cardinality({i \in DOMAIN bx.trace : bx.trace[i] = "failed"})
                   = bx.arg) =>
               (bx.raised /\ bx.exc \in {"page_failed", "context_failed"})
        /\ (bx.before.browser = 0 /\ bx.arg <= 0) => bx.raised

=============================================================================
